---- MODULE Spec2Model ----
(***************************************************************************)
(* Model of reg-radar: URL canonicalisation and the ingestion store writer *)
(* (run_save.py), the collectors' hand-over and the simulated writer       *)
(* (pipeline.py), the resilient fetcher (pipeline.py fetch_first_ok), the  *)
(* enrichment marker (enrich.py) and the staleness detector (alerts.py).   *)
(*                                                                         *)
(* A URL is a sequence of text chunks ("https:", "/", "www.", a host, a    *)
(* path segment, " "); the regular expression and the strip operations of  *)
(* the source act on chunk boundaries.  None is NoUrl for URL values,      *)
(* NoTs for timestamps, "None" for text values.                            *)
(***************************************************************************)
EXTENDS Integers, Sequences, FiniteSets, TLC

VARIABLES
  ingest_items,   \* table ingest_items: sequence of rows, id = position
  clock,          \* position in Instants of the current time
  last_op,        \* digest of the last store-writer call
  WRITE_TO_DB,    \* pipeline.py module switch
  chk,            \* arguments and derived values of the last staleness check
  silent,         \* alerts returned by the last check_silent_sources
  url_in,         \* pure-function harness: the pair of raw URLs
  url_key,        \* pure-function harness: their canonical keys
  f_pc, f_urls, f_retries, f_attempt, f_idx, f_requests, f_sleeps,
  f_result, f_last_err, f_logged,  \* fetch_first_ok activation
  runs_log,       \* table runs_log: sequence of RunRecords, id = position
  log_updates,    \* per RunRecord: how many updates it has received
  regulations,    \* table regulations: doc_url of each row, id = position
  arun,           \* alerts.py main activation
  erun,           \* enrich.py main activations, one per process
  llm_calls,      \* per ingest item: the enrich processes that called the LLM
  mark_count,     \* per ingest item: how many times mark_enriched wrote it
  prun,           \* pipeline.py run_pipeline activation
  hashseed,       \* per execution: the order string hashing gives a set
  cu_out,         \* candidate_urls results, per execution and input
  collected,      \* the collector call whose items were last saved
  cap,            \* pure-function harness: a feed or page and what the
                  \* collector returned for it
  idem            \* pure-function harness: a raw URL, its key, and the key
                  \* of its key

vars == <<ingest_items, clock, last_op, WRITE_TO_DB, chk, silent,
          url_in, url_key,
          f_pc, f_urls, f_retries, f_attempt, f_idx, f_requests, f_sleeps,
          f_result, f_last_err, f_logged,
          runs_log, log_updates, regulations, arun, erun, llm_calls,
          mark_count, prun, hashseed, cu_out, collected, cap, idem>>

storeVars == <<ingest_items, clock, last_op, WRITE_TO_DB, chk, silent>>
urlVars   == <<url_in, url_key>>
fetchVars == <<f_pc, f_urls, f_retries, f_attempt, f_idx, f_requests,
               f_sleeps, f_result, f_last_err, f_logged>>
logVars   == <<runs_log, log_updates, regulations, arun, erun, llm_calls,
               mark_count>>
pipeVars  == <<prun>>
candVars  == <<hashseed, cu_out>>
harnessVars == <<cap, idem>>
runVars   == <<logVars, pipeVars, candVars, collected, harnessVars>>

-----------------------------------------------------------------------------
(* Bounds *)
MaxBatch   == 2    \* entries of one feed / items of one writer call
MaxCands   == 2    \* candidate URLs handed to fetch_first_ok
MaxRetries == 2    \* retry budget handed to fetch_first_ok

-----------------------------------------------------------------------------
(* None values *)
NoUrl == <<"None">>
NoTs  == -1
NoId  == 0
Null  == -1     \* a count the statement leaves to the store, an exit code
                \* not yet given

Min(a, b) == IF a < b THEN a ELSE b

-----------------------------------------------------------------------------
(* run_save.py: normalize_url *)

RECURSIVE lstrip(_)
lstrip(u) == IF u # <<>> /\ Head(u) = " " THEN lstrip(Tail(u)) ELSE u

RECURSIVE rstrip(_)
rstrip(u) ==
  IF u # <<>> /\ u[Len(u)] = " " THEN rstrip(SubSeq(u, 1, Len(u) - 1)) ELSE u

strip(u) == rstrip(lstrip(u))

RECURSIVE rstrip_slash(_)
rstrip_slash(u) ==
  IF u # <<>> /\ u[Len(u)] = "/"
  THEN rstrip_slash(SubSeq(u, 1, Len(u) - 1))
  ELSE u

\* chunks the case-insensitive pattern  ^https?://(www\.)?  accepts
SchemeChunks == {"http:", "https:", "HTTP:", "HTTPS:"}
WwwChunks    == {"www.", "WWW."}
Https        == <<"https:", "/", "/">>

WWW_RE_sub(u) ==
  IF Len(u) >= 3 /\ u[1] \in SchemeChunks /\ u[2] = "/" /\ u[3] = "/"
  THEN IF Len(u) >= 4 /\ u[4] \in WwwChunks
       THEN Https \o SubSeq(u, 5, Len(u))
       ELSE Https \o SubSeq(u, 4, Len(u))
  ELSE u

normalize_url(u) ==
  IF u = NoUrl \/ u = <<>> THEN u ELSE rstrip_slash(WWW_RE_sub(strip(u)))

\* Python's  x or ""  on a URL value
OrEmpty(u) == IF u = NoUrl THEN <<>> ELSE u

-----------------------------------------------------------------------------
(* Pure-function harness for normalize_url: two raw URLs built from the    *)
(* same or different (host, path) by varying scheme, www., host case and   *)
(* trailing slash.                                                         *)

Schemes  == {<<>>, <<"http:", "/", "/">>, <<"https:", "/", "/">>,
             <<"HTTP:", "/", "/">>}
Wwws     == {<<>>, <<"www.">>}
HostIds  == {"example", "other"}
Cases    == {"lower", "upper"}
Paths    == {<<>>, <<"/", "a">>, <<"/", "a", "/", "b">>}
Trails   == {<<>>, <<"/">>}

HostText(h, c) ==
  IF h = "example"
  THEN (IF c = "lower" THEN <<"example.com">> ELSE <<"EXAMPLE.com">>)
  ELSE (IF c = "lower" THEN <<"other.org">> ELSE <<"OTHER.org">>)

UrlShapes == [scheme : Schemes, www : Wwws, host : HostIds, hcase : Cases,
              path : Paths, trail : Trails]

Render(s) == s.scheme \o s.www \o HostText(s.host, s.hcase) \o s.path \o s.trail

\* the two shapes differ at most in scheme, www., host case, trailing slash
SameDocument(s, t) == s.host = t.host /\ s.path = t.path

UrlInit ==
  /\ url_in \in [a : UrlShapes, b : UrlShapes]
  /\ url_key = [done |-> FALSE, a |-> NoUrl, b |-> NoUrl]

NormalizePair ==
  /\ ~url_key.done
  /\ url_key' = [done |-> TRUE,
                 a |-> normalize_url(Render(url_in.a)),
                 b |-> normalize_url(Render(url_in.b))]
  /\ UNCHANGED <<url_in, storeVars, fetchVars, runVars>>

-----------------------------------------------------------------------------
(* Time: whole seconds; the clock steps through the instants below. *)
H == 3600
Instants == <<0, 1, 2, 50 * H + 2, 72 * H + 1>>
Now == Instants[clock]

-----------------------------------------------------------------------------
(* Coverage rows (sources) and feeds *)

PsaUrl  == <<"https:", "/", "/", "www.", "psa.gov.qa", "/">>
McitUrl == <<"http:", "/", "/", "mcit.gov.qa", "/", "policies">>

SrcPsaQatar ==
  [country |-> "Qatar", authority |-> "PSA",  source_url |-> PsaUrl,
   rss_url |-> <<" ", "https:", "/", "/", "psa.gov.qa", "/", "feed">>]
SrcMcit ==
  [country |-> "Qatar", authority |-> "MCIT", source_url |-> McitUrl,
   rss_url |-> <<"HTTP:", "/", "/", "mcit.gov.qa", "/", "rss">>]
SrcPsaUae ==
  [country |-> "",      authority |-> "PSA",  source_url |-> PsaUrl,
   rss_url |-> <<"https:", "/", "/", "psa.ae", "/", "feed">>]
Sources == {SrcPsaQatar, SrcMcit, SrcPsaUae}

LinkA1 == <<"http:", "/", "/", "www.", "example.com", "/", "a", "/">>
LinkA2 == <<"https:", "/", "/", "example.com", "/", "a">>
LinkB  == <<"https:", "/", "/", "example.com", "/", "b">>
LinkSlash == <<" ", "/", "/">>
Links  == {LinkA1, LinkA2, LinkB, LinkSlash, NoUrl}


\* a parsed feed: entries with a link and a title (None when the entry has none)
RECURSIVE SeqsUpTo(_, _)
SeqsUpTo(S, n) ==
  IF n = 0 THEN {<<>>}
  ELSE LET shorter == SeqsUpTo(S, n - 1)
       IN  shorter \cup {Append(q, x) : q \in {r \in shorter : Len(r) = n - 1}, x \in S}

-----------------------------------------------------------------------------
(* pipeline.py helpers *)

looks_like_http(u) ==
  IF u = NoUrl \/ u = <<>> THEN FALSE
  ELSE LET ul == strip(u)
       IN  Len(ul) >= 3 /\ ul[1] \in SchemeChunks /\ ul[2] = "/" /\ ul[3] = "/"

normalize_country(c) ==
  IF c \in {"UAE", "KSA", "Qatar"} THEN c
  ELSE IF c = "None" \/ c = "" THEN "UAE" ELSE c

RSS_CAP == 50

Take_all(q, n) == q
Take(q, n) == SubSeq(q, 1, Min(n, Len(q)))

\* collect_rss: one item per feed entry (at most RSS_CAP); the fields the
\* writers never read (published_at, summary, raw_meta) are left out.
collect_rss(source, entries) ==
  IF ~looks_like_http(strip(OrEmpty(source.rss_url))) THEN <<>>
  ELSE LET es == Take(entries, RSS_CAP)
       IN  [i \in 1..Len(es) |->
             [country            |-> normalize_country(source.country),
              authority          |-> source.authority,
              source_url         |-> source.source_url,
              ingest_source_type |-> "rss",
              title              |-> es[i].title,
              doc_url            |-> es[i].link,
              created_at         |-> NoTs]]

\* a feed: the source it belongs to, the title its entries carry (None when
\* they have none) and the entries' links
Feed(src, title, links) ==
  collect_rss(src, [i \in 1..Len(links) |-> [link |-> links[i], title |-> title]])

-----------------------------------------------------------------------------
(* run_save.py: save_items, and the store's upsert on conflict doc_url *)

OrEmptyText(t) == IF t = "None" THEN "" ELSE t

\* line 17: the key of an item
DocKey_raw(it) == OrEmpty(it.doc_url)
DocKey(it) == normalize_url(OrEmpty(it.doc_url))

\* line 19: an item without key is skipped
IsUsable_any(doc) == TRUE
IsUsable(doc) == doc # <<>>

\* lines 16-29: the rows built from the items
RECURSIVE BuildRows(_)
BuildRows(items) ==
  IF items = <<>> THEN <<>>
  ELSE LET it  == Head(items)
           doc == DocKey(it)
           src == normalize_url(OrEmpty(it.source_url))
       IN  IF ~IsUsable(doc)
           THEN BuildRows(Tail(items))
           ELSE <<[country            |-> it.country,
                   authority          |-> it.authority,
                   title              |-> OrEmptyText(it.title),
                   doc_url            |-> doc,
                   source_url         |-> src,
                   ingest_source_type |-> IF it.ingest_source_type = "None"
                                          THEN "html"
                                          ELSE it.ingest_source_type,
                   created_at         |-> it.created_at]>>
                \o BuildRows(Tail(items))

RowIdOf(table, doc) ==
  IF \E i \in 1..Len(table) : table[i].doc_url = doc
  THEN CHOOSE i \in 1..Len(table) : table[i].doc_url = doc
  ELSE NoId

HasDuplicateKey(rows) ==
  \E i, j \in 1..Len(rows) : i # j /\ rows[i].doc_url = rows[j].doc_url

\* one proposed row applied to the table: the payload columns are written,
\* every other column of a conflicting row is kept; a new row gets the next
\* id, the insertion time when the payload has no created_at, and null
\* enrichment columns.
UpsertRow_replace(table, row, now) ==
  LET id == RowIdOf(table, row.doc_url)
      new == [id                 |-> IF id # NoId THEN id ELSE Len(table) + 1,
              country            |-> row.country,
              authority          |-> row.authority,
              title              |-> row.title,
              doc_url            |-> row.doc_url,
              source_url         |-> row.source_url,
              ingest_source_type |-> row.ingest_source_type,
              created_at         |-> IF row.created_at = NoTs
                                     THEN now ELSE row.created_at,
              enriched_at        |-> NoTs,
              regulation_id      |-> NoId]
  IN  IF id # NoId THEN [table EXCEPT ![id] = new] ELSE Append(table, new)

UpsertRow(table, row, now) ==
  LET id == RowIdOf(table, row.doc_url)
  IN  IF id # NoId
      THEN [table EXCEPT ![id] =
              [@ EXCEPT !.country = row.country,
                        !.authority = row.authority,
                        !.title = row.title,
                        !.source_url = row.source_url,
                        !.ingest_source_type = row.ingest_source_type,
                        !.created_at = IF row.created_at = NoTs
                                       THEN @ ELSE row.created_at]]
      ELSE Append(table,
             [id                 |-> Len(table) + 1,
              country            |-> row.country,
              authority          |-> row.authority,
              title              |-> row.title,
              doc_url            |-> row.doc_url,
              source_url         |-> row.source_url,
              ingest_source_type |-> row.ingest_source_type,
              created_at         |-> IF row.created_at = NoTs
                                     THEN now ELSE row.created_at,
              enriched_at        |-> NoTs,
              regulation_id      |-> NoId])

RECURSIVE UpsertAll(_, _, _)
UpsertAll(table, rows, now) ==
  IF rows = <<>> THEN table
  ELSE UpsertAll(UpsertRow(table, Head(rows), now), Tail(rows), now)

\* line 35: a single statement; the store rejects a statement that proposes
\* the same conflict key twice and then changes nothing.
StoreUpsert(table, rows, now) ==
  IF HasDuplicateKey(rows)
  THEN [raised |-> TRUE,  table |-> table, n |-> 0]
  ELSE [raised |-> FALSE, table |-> UpsertAll(table, rows, now), n |-> Len(rows)]

DocsOf(rows) == [i \in 1..Len(rows) |-> rows[i].doc_url]

save_items(items) ==
  LET rows == BuildRows(items)
      res  == StoreUpsert(ingest_items, rows, Now)
      old  == {i \in 1..Len(rows) : RowIdOf(ingest_items, rows[i].doc_url) # NoId}
  IN  IF rows = <<>>
      THEN /\ last_op' = [op |-> "save_items", dropped |-> Len(items),
                          handed |-> <<>>, raised |-> FALSE, ret |-> 0,
                          updated |-> {}, to_store |-> FALSE]
           /\ UNCHANGED ingest_items
      ELSE /\ ingest_items' = res.table
           /\ last_op' = [op |-> "save_items", dropped |-> Len(items) - Len(rows),
                          handed |-> DocsOf(rows), raised |-> res.raised,
                          ret |-> res.n,
                          updated |-> IF res.raised THEN {}
                                      ELSE {RowIdOf(ingest_items, rows[i].doc_url) : i \in old},
                          to_store |-> TRUE]

\* the item lists the writer is called with: the items of one feed
StoreHeads == {<<SrcPsaQatar, "t1">>, <<SrcMcit, "t1">>, <<SrcPsaQatar, "None">>}
StoreBatches ==
  {Feed(h[1], h[2], ls) : h \in StoreHeads, ls \in SeqsUpTo(Links, MaxBatch)}

\* one-entry feeds of every source
AlertBatches ==
  {Feed(h[1], "t1", <<h[2]>>) :
     h \in {<<SrcPsaQatar, LinkA2>>, <<SrcMcit, LinkB>>, <<SrcPsaUae, LinkA2>>}}

SaveItems ==
  /\ \E items \in StoreBatches : save_items(items)
  /\ UNCHANGED <<clock, WRITE_TO_DB, chk, silent, urlVars, fetchVars, runVars>>

SaveItem ==
  /\ \E items \in AlertBatches : save_items(items)
  /\ UNCHANGED <<clock, WRITE_TO_DB, chk, silent, urlVars, fetchVars, runVars>>

-----------------------------------------------------------------------------
(* enrich.py: mark_enriched on an item get_pending_items can return *)

RegIds == {1}

mark_enriched(item_id, regulation_id) ==
  ingest_items' = [ingest_items EXCEPT ![item_id] =
                     [@ EXCEPT !.enriched_at = Now, !.regulation_id = regulation_id]]

MarkEnriched ==
  /\ \E id \in 1..Len(ingest_items), reg \in RegIds :
        /\ ingest_items[id].enriched_at = NoTs
        /\ mark_enriched(id, reg)
  /\ last_op' = [op |-> "mark_enriched", dropped |-> 0, handed |-> <<>>,
                 raised |-> FALSE, ret |-> 0, updated |-> {}, to_store |-> TRUE]
  /\ UNCHANGED <<clock, WRITE_TO_DB, chk, silent, urlVars, fetchVars, runVars>>

Tick ==
  /\ clock < Len(Instants)
  /\ clock' = clock + 1
  /\ UNCHANGED <<ingest_items, last_op, WRITE_TO_DB, chk, silent, urlVars, fetchVars, runVars>>

-----------------------------------------------------------------------------
(* pipeline.py: save_items, the simulated writer behind WRITE_TO_DB *)

PREVIEW == 5

RawDocs(items) == [i \in 1..Len(items) |-> items[i].doc_url]

\* line 296: a plain insert; the store rejects the statement when a doc_url
\* is already stored or occurs twice, and the handler logs the exception.
StoreInsert(table, items, now) ==
  IF \/ \E i, j \in 1..Len(items) : i # j /\ items[i].doc_url = items[j].doc_url
     \/ \E i \in 1..Len(items) : RowIdOf(table, items[i].doc_url) # NoId
  THEN table
  ELSE table \o [i \in 1..Len(items) |->
         [id                 |-> Len(table) + i,
          country            |-> items[i].country,
          authority          |-> items[i].authority,
          title              |-> items[i].title,
          doc_url            |-> items[i].doc_url,
          source_url         |-> items[i].source_url,
          ingest_source_type |-> items[i].ingest_source_type,
          created_at         |-> now,
          enriched_at        |-> NoTs,
          regulation_id      |-> NoId]]

pipeline_save_items(items) ==
  IF items = <<>>
  THEN /\ last_op' = [op |-> "pipeline_save_items", dropped |-> 0, handed |-> <<>>,
                      raised |-> FALSE, ret |-> 0, updated |-> {}, to_store |-> FALSE]
       /\ UNCHANGED ingest_items
  ELSE IF ~WRITE_TO_DB
  THEN \* the preview subscripts the title: an item without title raises
       /\ last_op' = [op |-> "pipeline_save_items", dropped |-> 0,
                      handed |-> <<>>,
                      raised |-> \E i \in 1..Min(PREVIEW, Len(items)) :
                                   items[i].title = "None",
                      ret |-> Min(PREVIEW, Len(items)), updated |-> {},
                      to_store |-> FALSE]
       /\ UNCHANGED ingest_items
  ELSE /\ ingest_items' = StoreInsert(ingest_items, items, Now)
       /\ last_op' = [op |-> "pipeline_save_items", dropped |-> 0,
                      handed |-> RawDocs(items), raised |-> FALSE,
                      ret |-> 0, updated |-> {}, to_store |-> TRUE]

DryRunBatches ==
  {Feed(SrcPsaQatar, t, ls) : t \in {"t1", "None"},
                              ls \in SeqsUpTo({LinkB, NoUrl}, MaxBatch)}

PipelineSaveItems ==
  /\ \E items \in DryRunBatches : pipeline_save_items(items)
  /\ UNCHANGED <<clock, WRITE_TO_DB, chk, silent, urlVars, fetchVars, runVars>>

-----------------------------------------------------------------------------
(* alerts.py: parse_overrides *)

\* The option text is a sequence of comma-separated parts, each a sequence of
\* chunks; IntText gives the value of the chunks int() accepts.
IntText == ("48" :> 48) @@ ("96" :> 96) @@ ("0" :> 0)

IndexOfEq(p) ==
  IF \E i \in 1..Len(p) : p[i] = "="
  THEN CHOOSE i \in 1..Len(p) : p[i] = "=" /\ \A j \in 1..(i - 1) : p[j] # "="
  ELSE 0

IsIntText(v) == Len(v) = 1 /\ v[1] \in DOMAIN IntText

Put(f, k, v) == [x \in DOMAIN f \cup {k} |-> IF x = k THEN v ELSE f[x]]

RECURSIVE ParseParts(_, _)
ParseParts(parts, out) ==
  IF parts = <<>> THEN out
  ELSE LET p  == strip(Head(parts))
           eq == IndexOfEq(p)
           k  == strip(SubSeq(p, 1, eq - 1))
           v  == strip(SubSeq(p, eq + 1, Len(p)))
       IN  IF p = <<>> \/ eq = 0 \/ ~IsIntText(v)
           THEN ParseParts(Tail(parts), out)
           ELSE ParseParts(Tail(parts), Put(out, k, IntText[v[1]]))

NoText == <<<<"None">>>>
EmptyMap == [x \in {} |-> 0]

parse_overrides(s) ==
  IF s = NoText \/ s = <<>> THEN EmptyMap ELSE ParseParts(s, EmptyMap)

\* dict.get(key, default) with an authority name as key
Get(map, authority, default) ==
  IF <<authority>> \in DOMAIN map THEN map[<<authority>>] ELSE default

\* "PSA=48";  " PSA = 48 ,MCIT=x";  "PSA,MCIT=96,,PSA=48=0"
TextPsa48  == << <<"PSA", "=", "48">> >>
TextSpaced == << <<" ", "PSA", " ", "=", " ", "48", " ">>, <<"MCIT", "=", "x">> >>
TextMixed  == << <<"PSA">>, <<"MCIT", "=", "96">>, <<>>,
                 <<"PSA", "=", "48", "=", "0">> >>
OverrideTexts == {NoText, TextPsa48, TextSpaced, TextMixed}

-----------------------------------------------------------------------------
(* alerts.py: check_silent_sources *)

MAX_ROWS_DEFAULT   == 50000
MIN_SILENCE_DEFAULT == 72

\* collation order of the stored authority and source_url values
AuthorityOrder == <<"MCIT", "PSA">>
SourceUrlOrder == <<normalize_url(McitUrl), normalize_url(PsaUrl)>>

RankIn(order, x) ==
  IF \E i \in 1..Len(order) : order[i] = x
  THEN CHOOSE i \in 1..Len(order) : order[i] = x
  ELSE 0

\* ORDER BY authority, source_url, created_at DESC (nulls first)
Before(r1, r2) ==
  LET a1 == RankIn(AuthorityOrder, r1.authority)
      a2 == RankIn(AuthorityOrder, r2.authority)
      u1 == RankIn(SourceUrlOrder, r1.source_url)
      u2 == RankIn(SourceUrlOrder, r2.source_url)
  IN  \/ a1 < a2
      \/ a1 = a2 /\ u1 < u2
      \/ a1 = a2 /\ u1 = u2 /\ r1.created_at = NoTs /\ r2.created_at # NoTs
      \/ a1 = a2 /\ u1 = u2 /\ r1.created_at # NoTs /\ r2.created_at # NoTs
           /\ r1.created_at > r2.created_at

RECURSIVE Perms(_)
Perms(S) ==
  IF S = {} THEN {<<>>}
  ELSE UNION {{<<x>> \o q : q \in Perms(S \ {x})} : x \in S}

\* the orders in which the store may return the selected rows
QueryResults(table, country, max_rows) ==
  LET sel == {i \in 1..Len(table) : country = "None" \/ table[i].country = country}
      ord == {q \in Perms(sel) :
                \A i, j \in 1..Len(q) : i < j => ~Before(table[q[j]], table[q[i]])}
  IN  {[i \in 1..Min(max_rows, Len(q)) |-> table[q[i]]] : q \in ord}

KeyOf(r) == <<r.country, r.authority, r.source_url>>

HasKey(latest, key) == \E i \in 1..Len(latest) : latest[i].key = key

\* line 111: the store returns created_at as ISO text with the fraction of
\* a second cut after its last non-zero digit.  The instants below have a
\* fraction that is neither 3 nor 6 digits long: datetime.fromisoformat
\* accepts such text from Python 3.11 on and raises ValueError before.
ShortFraction == {2}

\* the text of ts parses; strict: the interpreter is older than 3.11
Parses(ts, strict) == ~(strict /\ ts \in ShortFraction)

\* lines 101-115: the first row seen of each group gives its last_item_at;
\* a row without key, of a group already seen, without created_at or whose
\* created_at does not parse is passed over
RECURSIVE LatestBySource(_, _, _)
LatestBySource_seeded(rows, latest, strict) ==
  LET keys == <<SrcPsaQatar, SrcMcit, SrcPsaUae>>
  IN  [i \in 1..Len(keys) |->
        [key |-> <<normalize_country(keys[i].country), keys[i].authority,
                   normalize_url(keys[i].source_url)>>,
         last_dt |-> 0]]
LatestBySource(rows, latest, strict) ==
  IF rows = <<>> THEN latest
  ELSE LET r   == Head(rows)
           key == KeyOf(r)
       IN  IF \/ key[1] = "None" \/ key[1] = ""
              \/ key[2] = "None" \/ key[2] = ""
              \/ key[3] = NoUrl \/ key[3] = <<>>
              \/ HasKey(latest, key)
              \/ r.created_at = NoTs
              \/ ~Parses(r.created_at, strict)
           THEN LatestBySource(Tail(rows), latest, strict)
           ELSE LatestBySource(Tail(rows),
                               Append(latest, [key |-> key, last_dt |-> r.created_at]),
                               strict)

\* line 120
Threshold_default(overrides, authority, default) == default
Threshold(overrides, authority, default) == Get(overrides, authority, default)

\* line 121
IsSilent_le(last_dt, now, thr) == last_dt <= now - thr * H
IsSilent(last_dt, now, thr) == last_dt < now - thr * H

\* lines 117-132; hours_since, a rounded float for the report, is left out
RECURSIVE SilentOf(_, _, _, _)
SilentOf(latest, now, overrides, default) ==
  IF latest = <<>> THEN <<>>
  ELSE LET e   == Head(latest)
           thr == Threshold(overrides, e.key[2], default)
           rest == SilentOf(Tail(latest), now, overrides, default)
       IN  IF IsSilent(e.last_dt, now, thr)
           THEN <<[country      |-> e.key[1],
                   authority    |-> e.key[2],
                   source_url   |-> e.key[3],
                   last_item_at |-> e.last_dt,
                   threshold_h  |-> thr]>> \o rest
           ELSE rest

\* lines 101-132 on the rows the query returned
check_silent_sources(rows, default, overrides, now, strict) ==
  LET latest == LatestBySource(rows, <<>>, strict)
  IN  [latest |-> latest, silent |-> SilentOf(latest, now, overrides, default)]

\* the health check's call: option values, the query (lines 89-99), the scan
CheckWith(texts, row_limits) ==
  /\ \E default \in {MIN_SILENCE_DEFAULT}, text \in texts,
        country \in {"None", "UAE"}, max_rows \in row_limits,
        strict \in BOOLEAN :
      \E rows \in QueryResults(ingest_items, country, max_rows) :
        LET overrides == parse_overrides(text)
            res == check_silent_sources(rows, default, overrides, Now, strict)
        IN  /\ silent' = res.silent
            /\ chk' = [called |-> TRUE, now |-> Now, default |-> default,
                       text |-> text, overrides |-> overrides,
                       latest |-> res.latest]
  /\ UNCHANGED <<ingest_items, clock, last_op, WRITE_TO_DB, urlVars, fetchVars, runVars>>

CheckSilentSources == CheckWith(OverrideTexts, {1, MAX_ROWS_DEFAULT})

\* the check without overrides, on row limits below and above the table size
CheckLatest == CheckWith({NoText}, {1, 2, MAX_ROWS_DEFAULT})

\* one-entry feeds of two sources that share authority and source_url and
\* differ in country
LinkC == <<"https:", "/", "/", "example.com", "/", "c">>
LatestBatches ==
  {Feed(src, "t1", <<l>>) : src \in {SrcPsaQatar, SrcPsaUae},
                            l \in {LinkA2, LinkB, LinkC}}

MaxWrites == 3    \* writer calls behind a table

\* the tables the writer leaves after up to k calls, each at an instant not
\* before the rows already stored
RECURSIVE TablesAfter(_)
TablesAfter(k) ==
  IF k = 0 THEN {<<>>}
  ELSE LET prev == TablesAfter(k - 1)
           after(t) == {d \in 1..3 : \A i \in 1..Len(t) : t[i].created_at <= Instants[d]}
       IN  prev \cup
           UNION {{UpsertAll(t, BuildRows(items), Instants[c]) :
                     items \in LatestBatches, c \in after(t)} : t \in prev}

LatestTables == TablesAfter(MaxWrites)

-----------------------------------------------------------------------------
(* pipeline.py: fetch_first_ok, one step per await *)

NoResp == [url |-> NoUrl, status_code |-> 0]
BACKOFF_TENTHS == 12      \* 1.2 s, in tenths of a second

FetchUrls == {<<"https:", "/", "/", "www.", "psa.gov.qa", "/">>,
              <<"https:", "/", "/", "psa.gov.qa", "/">>}

\* line 163: the candidate the inner loop is at
CandidateAt_rev(urls, idx) == urls[Len(urls) + 1 - idx]
CandidateAt(urls, idx) == urls[idx]

\* line 171
ShouldSleep_le(attempt, retries) == attempt <= retries
ShouldSleep(attempt, retries) == attempt < retries

\* line 161: range(retries + 1) has a next value
HasNextPass(attempt, retries) == attempt + 1 <= retries

PassStart(urls) == IF urls = <<>> THEN "pass_end" ELSE "get"

FetchInit ==
  /\ f_urls \in SeqsUpTo(FetchUrls, MaxCands)
  /\ f_retries \in 0..MaxRetries
  /\ f_pc = PassStart(f_urls)
  /\ f_attempt = 0
  /\ f_idx = 1
  /\ f_requests = <<>>
  /\ f_sleeps = <<>>
  /\ f_result = NoResp
  /\ f_last_err = "None"
  /\ f_logged = FALSE

\* lines 164-170: one GET; 200 returns the response, anything else is noted
FetchGet ==
  /\ f_pc = "get"
  /\ \E outcome \in {"200", "non200", "exception"} :
       LET u == CandidateAt(f_urls, f_idx)
       IN  /\ f_requests' = Append(f_requests, [url |-> u, ok |-> outcome = "200"])
           /\ IF outcome = "200"
              THEN /\ f_result' = [url |-> u, status_code |-> 200]
                   /\ f_pc' = "done"
                   /\ UNCHANGED <<f_idx, f_last_err>>
              ELSE /\ f_last_err' = outcome
                   /\ f_idx' = f_idx + 1
                   /\ f_pc' = IF f_idx + 1 > Len(f_urls) THEN "pass_end" ELSE "get"
                   /\ UNCHANGED f_result
  /\ UNCHANGED <<f_urls, f_retries, f_attempt, f_sleeps, f_logged, storeVars, urlVars, runVars>>

\* lines 171-172: the backoff after a pass without success
FetchPassEnd ==
  /\ f_pc = "pass_end"
  /\ f_sleeps' = IF ShouldSleep(f_attempt, f_retries)
                 THEN Append(f_sleeps, BACKOFF_TENTHS * (f_attempt + 1))
                 ELSE f_sleeps
  /\ f_pc' = "loop"
  /\ UNCHANGED <<f_urls, f_retries, f_attempt, f_idx, f_requests, f_result,
                 f_last_err, f_logged, storeVars, urlVars, runVars>>

\* lines 161-162: the next pass
FetchNextPass ==
  /\ f_pc = "loop"
  /\ HasNextPass(f_attempt, f_retries)
  /\ f_attempt' = f_attempt + 1
  /\ f_last_err' = "None"
  /\ f_idx' = 1
  /\ f_pc' = PassStart(f_urls)
  /\ UNCHANGED <<f_urls, f_retries, f_requests, f_sleeps, f_result, f_logged,
                 storeVars, urlVars, runVars>>

\* lines 173-175: no pass left
FetchReturnNone ==
  /\ f_pc = "loop"
  /\ ~HasNextPass(f_attempt, f_retries)
  /\ f_logged' = (f_last_err # "None")
  /\ f_result' = NoResp
  /\ f_pc' = "done"
  /\ UNCHANGED <<f_urls, f_retries, f_attempt, f_idx, f_requests, f_sleeps,
                 f_last_err, storeVars, urlVars, runVars>>

FetchNext == FetchGet \/ FetchPassEnd \/ FetchNextPass \/ FetchReturnNone

-----------------------------------------------------------------------------
(* pipeline.py: candidate_urls *)

\* str.lower() on the chunks that have upper-case letters
LowerMap == ("NCSA.gov.qa" :> "ncsa.gov.qa") @@ ("EXAMPLE.com" :> "example.com")
            @@ ("OTHER.org" :> "other.org") @@ ("WWW." :> "www.")
            @@ ("HTTP:" :> "http:") @@ ("HTTPS:" :> "https:")
            @@ (".PDF" :> ".pdf") @@ ("Policy" :> "policy")
LowerChunk(c) == IF c \in DOMAIN LowerMap THEN LowerMap[c] ELSE c
Lower(u) == [i \in 1..Len(u) |-> LowerChunk(u[i])]

RECURSIVE lstrip_slash(_)
lstrip_slash(u) == IF u # <<>> /\ Head(u) = "/" THEN lstrip_slash(Tail(u)) ELSE u

\* line 71-72: the scheme is defaulted
WithScheme(u) == IF looks_like_http(u) THEN u ELSE Https \o lstrip_slash(u)

\* urlparse of a URL with scheme: the netloc runs from the "//" to the next
\* "/", the path is the rest
NetlocEnd(u) ==
  IF \E i \in 4..Len(u) : u[i] = "/"
  THEN (CHOOSE i \in 4..Len(u) : u[i] = "/" /\ \A j \in 4..(i - 1) : u[j] # "/") - 1
  ELSE Len(u)
Netloc(u)  == SubSeq(u, 4, NetlocEnd(u))
PathOf(u)  == SubSeq(u, NetlocEnd(u) + 1, Len(u))

HasChunk(u, cs) == \E i \in 1..Len(u) : u[i] \in cs

\* lines 76-84: the path, with the overrides of the known hosts
OverridePath(host, p) ==
  LET path0 == IF p = <<>> THEN <<"/">> ELSE p
      path1 == IF HasChunk(host, {"hukoomi.gov.qa"})
               THEN <<"/", "en", "/", "policies-and-strategies">>
               ELSE path0
      path2 == IF /\ HasChunk(host, {"mcit.gov.qa"})
                  /\ \E i \in 1..(Len(path1) - 1) :
                        path1[i] = "/"
                        /\ path1[i + 1] \in {"policies", "policies-and-reports",
                                             "policies-and-strategies"}
                  /\ ~HasChunk(path1, {"reports", "policies-and-reports"})
               THEN <<"/", "en", "/", "policies-and-reports", "/">>
               ELSE path1
  IN  IF HasChunk(host, {"ncsa.gov.qa"}) /\ path2 = <<"/">>
      THEN <<"/", "en", "/">>
      ELSE path2

\* lines 89-93: the other www form of the host
ToggleWww(host) ==
  IF host # <<>> /\ host[1] = "www." THEN Tail(host) ELSE <<"www.">> \o host

\* line 96
SlashLike(v, path) ==
  rstrip_slash(v) \o (IF path # <<>> /\ path[Len(path)] = "/" THEN <<"/">> ELSE <<>>)

\* lines 70-96: the set of variants of a non-empty input
Variants(base_url) ==
  LET u    == WithScheme(strip(base_url))
      host == Lower(Netloc(u))
      path == OverridePath(host, PathOf(u))
  IN  {SlashLike(Https \o host \o path, path),
       SlashLike(Https \o ToggleWww(host) \o path, path)}

\* line 97: list(set) of strings; the order is the iteration order of the
\* set, which follows the process's string hashing: order[V] is the element
\* of V this process iterates first
ListOfSet(V, order) ==
  LET first == order[V]
      rest  == V \ {first}
  IN  IF rest = {} THEN <<first>> ELSE <<first, CHOOSE v \in rest : TRUE>>

candidate_urls(base_url, order) ==
  IF base_url = NoUrl \/ base_url = <<>> THEN <<>>
  ELSE ListOfSet(Variants(base_url), order)

NcsaUrl == <<" ", "/", "/", "NCSA.gov.qa">>
CandInputs == {PsaUrl, McitUrl, NcsaUrl, <<>>, NoUrl}

\* the iteration orders a process can have
CandSets == {Variants(u) : u \in CandInputs \ {<<>>, NoUrl}}
HashOrders == {f \in [CandSets -> UNION CandSets] : \A V \in CandSets : f[V] \in V}

Execs == {1, 2}
MaxCalls == 2

CandIdle ==
  /\ hashseed = [e \in Execs |-> CHOOSE f \in HashOrders : TRUE]
  /\ cu_out = <<>>

CandInit ==
  /\ hashseed \in [Execs -> HashOrders]
  /\ cu_out = <<>>

\* a call of candidate_urls in one of the executions
CandidateUrls ==
  /\ Len(cu_out) < MaxCalls
  /\ \E e \in Execs, u \in CandInputs :
       cu_out' = Append(cu_out, [exec |-> e, base_url |-> u,
                                 urls |-> candidate_urls(u, hashseed[e])])
  /\ UNCHANGED <<hashseed, storeVars, urlVars, fetchVars, logVars, pipeVars,
                 collected, harnessVars>>

-----------------------------------------------------------------------------
(* pipeline.py: the coverage table and fetch_active_sources *)

SOURCE_LIMIT_DEFAULT == 10

SrcNcsa ==
  [country |-> "Qatar", authority |-> "NCSA", source_url |-> NcsaUrl,
   rss_url |-> NoUrl]

\* the format column is text: a sequence of chunks
Cov(src, format, has_rss, priority, is_active) ==
  [country |-> src.country, authority |-> src.authority,
   source_url |-> src.source_url, rss_url |-> src.rss_url,
   format |-> format, has_rss |-> has_rss, priority |-> priority,
   is_active |-> is_active]

\* table coverage, listed by priority
Coverage ==
  <<Cov(SrcPsaQatar, <<"HTML">>,             TRUE,  1, TRUE),
    Cov(SrcMcit,     <<"html", "/", "PDF">>, FALSE, 2, TRUE),
    Cov(SrcNcsa,     <<"HTML">>,             FALSE, 3, TRUE),
    Cov(SrcPsaUae,   <<"PDF">>,              FALSE, 4, TRUE),
    Cov(SrcMcit,     <<"HTML">>,             TRUE,  5, FALSE)>>

\* "X" in (format or "").upper()
UpperChunk(c) == IF c = "html" THEN "HTML" ELSE IF c = "pdf" THEN "PDF" ELSE c
FormatHas(format, x) == \E i \in 1..Len(format) : UpperChunk(format[i]) = x

\* format LIKE '%X%'
FormatLike(format, x) == \E i \in 1..Len(format) : format[i] = x

Matches(row, only, country) ==
  /\ row.is_active
  /\ country = "None" \/ row.country = country
  /\ only = "rss"  => row.has_rss
  /\ only = "html" => FormatLike(row.format, "HTML")
  /\ only = "pdf"  => FormatLike(row.format, "PDF")

RECURSIVE Select(_, _, _)
Select(table, only, country) ==
  IF table = <<>> THEN <<>>
  ELSE (IF Matches(Head(table), only, country) THEN <<Head(table)>> ELSE <<>>)
       \o Select(Tail(table), only, country)

fetch_active_sources(table, limit, only, country) ==
  Take(Select(table, only, country), limit)

-----------------------------------------------------------------------------
(* pipeline.py: is_pdf_url, want_link_for_domain, collect_html_async,      *)
(* collect_pdf_placeholder                                                 *)

HTML_CAP == 50

is_pdf_url(u) ==
  LET p == PathOf(u) IN p # <<>> /\ LowerChunk(p[Len(p)]) = ".pdf"

\* the keywords a chunk of the alphabet contains
WordsIn(c) ==
  CASE c = "policy"                  -> {"policy"}
    [] c = "policies"                -> {"policies"}
    [] c = "policies-and-reports"    -> {"policies", "report"}
    [] c = "policies-and-strategies" -> {"policies", "strategies"}
    [] c = "data.gov.qa"             -> {"data"}
    [] c = "dataset"                 -> {"data"}
    [] OTHER                         -> {}

HasWord(u, words) ==
  \E i \in 1..Len(u) : WordsIn(LowerChunk(u[i])) \cap words # {}

\* "/seg/" or "/seg" occurs in the URL
HasSegment(u, segs) ==
  \E i \in 1..(Len(u) - 1) : u[i] = "/" /\ LowerChunk(u[i + 1]) \in segs

want_link_for_domain(abs_url, page_domain) ==
  IF HasChunk(page_domain, {"data.gov.qa"})
  THEN is_pdf_url(abs_url)
       \/ HasSegment(abs_url, {"explore", "dataset", "download", "api"})
  ELSE IF HasChunk(page_domain, {"hukoomi.gov.qa"})
  THEN is_pdf_url(abs_url)
       \/ HasWord(abs_url, {"policy", "policies", "strategy", "strategies",
                            "data", "ai", "cyber", "security", "privacy"})
  ELSE is_pdf_url(abs_url)
       \/ HasWord(abs_url, {"policy", "report", "document", "data", "ai",
                            "cyber", "privacy", "security"})

\* urljoin for an absolute or a root-relative href
urljoin(base, href) ==
  IF href # <<>> /\ LowerChunk(href[1]) \in {"http:", "https:"} THEN href
  ELSE SubSeq(base, 1, NetlocEnd(base)) \o href

\* str(abs_url) as a title
PolicyUrl == <<"https:", "/", "/", "psa.gov.qa", "/", "Policy">>
UrlText(u) == IF u = PolicyUrl THEN "https://psa.gov.qa/Policy" ELSE "url"

SkippedHref(href) ==
  \/ href = <<>> \/ href = NoUrl
  \/ href[1] \in {"#", "mailto:", "tel:", "javascript:"}

\* lines 228-262: the items of the anchors, in document order.  An anchor
\* is a candidate when its href is not skipped and joins to an http URL; a
\* candidate is fresh when no earlier candidate has its URL (seen); a fresh
\* candidate the domain filter wants is kept; the loop ends at the
\* HTML_CAP-th kept anchor.
AnchorItems(anchors, source, r_url) ==
  LET N       == Len(anchors)
      href    == [i \in 1..N |-> IF anchors[i].href = NoUrl THEN <<>>
                                 ELSE strip(anchors[i].href)]
      abs_url == [i \in 1..N |-> urljoin(r_url, href[i])]
      cand    == {i \in 1..N : ~SkippedHref(href[i]) /\ looks_like_http(abs_url[i])}
      fresh   == {i \in cand : \A j \in cand : j < i => abs_url[j] # abs_url[i]}
      kept    == {i \in fresh :
                    want_link_for_domain(abs_url[i], Lower(Netloc(r_url)))}
      nth(p)  == CHOOSE i \in kept : Cardinality({j \in kept : j <= i}) = p
  IN  [p \in 1..Min(HTML_CAP, Cardinality(kept)) |->
         LET i == nth(p)
         IN  [country            |-> normalize_country(source.country),
              authority          |-> source.authority,
              source_url         |-> source.source_url,
              ingest_source_type |-> IF is_pdf_url(abs_url[i])
                                     THEN "html:pdf-link" ELSE "html",
              title              |-> IF anchors[i].text = "" THEN UrlText(abs_url[i])
                                     ELSE anchors[i].text,
              doc_url            |-> abs_url[i],
              created_at         |-> NoTs]]

\* lines 206-211: the candidates of the listing page
HtmlCandidates(source, order) ==
  candidate_urls(WithScheme(strip(OrEmpty(source.source_url))), order)

\* lines 213-264 on the fetcher's result: no response, a page that does not
\* parse, or a page with anchors
collect_html_async(source, r) ==
  IF r.status_code # 200 \/ ~r.parses THEN <<>>
  ELSE AnchorItems(r.anchors, source, r.url)

\* the key of the type is "_ingest_source_type": the item has no
\* "ingest_source_type"
collect_pdf_placeholder(source) ==
  LET url == strip(OrEmpty(source.source_url))
  IN  IF ~looks_like_http(url) THEN <<>>
      ELSE <<[country              |-> normalize_country(source.country),
              authority            |-> source.authority,
              source_url           |-> source.source_url,
              ingest_source_type   |-> "None",
              _ingest_source_type  |-> "pdf",
              title                |-> "PDF from url",
              doc_url              |-> url,
              created_at           |-> NoTs]>>

-----------------------------------------------------------------------------
(* pipeline.py: run_pipeline, one step per source of a phase *)

Entry(link, title) == [link |-> link, title |-> title]

\* what feedparser gives for the feed of a source
FeedEntries == {<<Entry(LinkA2, "t1")>>, <<Entry(LinkB, "None"), Entry(NoUrl, "t1")>>}

Anchor(href, text) == [href |-> href, text |-> text]

PdfHref == <<"/", "docs", "/", "law", ".PDF">>

\* the anchors of a listing page
AnchorLists ==
  {<<>>,
   <<Anchor(PdfHref, "Law"), Anchor(<<"#", "top">>, "Top"),
     Anchor(<<"/", "about">>, "About"), Anchor(PdfHref, "Law again")>>,
   <<Anchor(PolicyUrl, ""), Anchor(<<"mailto:", "x">>, "Mail"),
     Anchor(NoUrl, "None")>>}

\* what fetch_first_ok can hand to the HTML collector
Responses(urls) ==
  {[url |-> NoUrl, status_code |-> 0, parses |-> FALSE, anchors |-> <<>>]}
  \cup {[url |-> urls[i], status_code |-> 200, parses |-> p, anchors |-> as] :
          i \in 1..Len(urls), p \in BOOLEAN, as \in AnchorLists}

\* the activation: its locals (only, sources, idx, all_items), what it logged
\* (errors), and for the properties the collector calls it made (attempted),
\* the collector behind each item (origin) and the list the writer was
\* called with (handed)
PipeIdle ==
  [pc |-> "idle", only |-> "None", sources |-> <<>>, idx |-> 1,
   all_items |-> <<>>, origin |-> <<>>, errors |-> <<>>, attempted |-> <<>>,
   saved |-> FALSE, handed |-> <<>>, exit |-> Null]

PhaseOn(only, phase) == only = "None" \/ only = phase

NextPhase(pc) ==
  IF pc = "rss" THEN "html" ELSE IF pc = "html" THEN "pdf" ELSE "save"

\* lines 318, 333, 344: the sources a phase collects
Eligible(s, phase) ==
  IF phase = "rss" THEN s.has_rss
  ELSE IF phase = "html" THEN FormatHas(s.format, "HTML")
  ELSE FormatHas(s.format, "PDF") /\ ~FormatHas(s.format, "HTML") /\ ~s.has_rss

\* all_items.extend(items)
Extend(run, items, phase, source) ==
  [run EXCEPT !.all_items = @ \o items,
              !.origin = @ \o [i \in 1..Len(items) |-> phase],
              !.attempted = Append(@, [phase |-> phase, priority |-> source.priority,
                                       ok |-> TRUE, items |-> items]),
              !.idx = @ + 1]

\* except Exception: the error is logged and the loop goes on with the next
\* source
Logged_break(run, phase, source) ==
  [run EXCEPT !.errors = Append(@, <<phase, source.authority>>),
              !.attempted = Append(@, [phase |-> phase, priority |-> source.priority,
                                       ok |-> FALSE, items |-> <<>>]),
              !.idx = Len(run.sources) + 1]
Logged(run, phase, source) ==
  [run EXCEPT !.errors = Append(@, <<phase, source.authority>>),
              !.attempted = Append(@, [phase |-> phase, priority |-> source.priority,
                                       ok |-> FALSE, items |-> <<>>]),
              !.idx = @ + 1]

\* lines 305-312
PipelineStart ==
  /\ prun.pc = "idle"
  /\ \E only \in {"None", "rss", "html", "pdf"} :
       LET sources == fetch_active_sources(Coverage, SOURCE_LIMIT_DEFAULT,
                                           only, "None")
       IN  prun' = [PipeIdle EXCEPT
                      !.only = only, !.sources = sources,
                      !.pc = IF sources = <<>> THEN "done" ELSE "rss",
                      !.exit = IF sources = <<>> THEN 0 ELSE Null]
  /\ UNCHANGED <<storeVars, urlVars, fetchVars, logVars, candVars, harnessVars, collected>>

\* the end of a phase's loop, or a phase --only leaves out
PipelineNextPhase ==
  /\ prun.pc \in {"rss", "html", "pdf"}
  /\ ~PhaseOn(prun.only, prun.pc) \/ prun.idx > Len(prun.sources)
  /\ prun' = [prun EXCEPT !.pc = NextPhase(prun.pc), !.idx = 1]
  /\ UNCHANGED <<storeVars, urlVars, fetchVars, logVars, candVars, harnessVars, collected>>

\* lines 316-322
PipelineRss ==
  /\ prun.pc = "rss" /\ PhaseOn(prun.only, "rss")
  /\ prun.idx <= Len(prun.sources)
  /\ LET s == prun.sources[prun.idx]
     IN  IF ~Eligible(s, "rss") THEN prun' = [prun EXCEPT !.idx = @ + 1]
         ELSE \/ prun' = Logged(prun, "rss", s)
              \/ \E entries \in FeedEntries :
                   prun' = Extend(prun, collect_rss(s, entries), "rss", s)
  /\ UNCHANGED <<storeVars, urlVars, fetchVars, logVars, candVars, harnessVars, collected>>

\* lines 331-338
PipelineHtml ==
  /\ prun.pc = "html" /\ PhaseOn(prun.only, "html")
  /\ prun.idx <= Len(prun.sources)
  /\ LET s == prun.sources[prun.idx]
     IN  IF ~Eligible(s, "html") THEN prun' = [prun EXCEPT !.idx = @ + 1]
         ELSE \/ prun' = Logged(prun, "html", s)
              \/ \E r \in Responses(HtmlCandidates(s, hashseed[1])) :
                   prun' = Extend(prun, collect_html_async(s, r), "html", s)
  /\ UNCHANGED <<storeVars, urlVars, fetchVars, logVars, candVars, harnessVars, collected>>

\* lines 342-349
PipelinePdf ==
  /\ prun.pc = "pdf" /\ PhaseOn(prun.only, "pdf")
  /\ prun.idx <= Len(prun.sources)
  /\ LET s == prun.sources[prun.idx]
     IN  IF ~Eligible(s, "pdf") THEN prun' = [prun EXCEPT !.idx = @ + 1]
         ELSE \/ prun' = Logged(prun, "pdf", s)
              \/ prun' = Extend(prun, collect_pdf_placeholder(s), "pdf", s)
  /\ UNCHANGED <<storeVars, urlVars, fetchVars, logVars, candVars, harnessVars, collected>>

\* line 351: the writer; an exception it raises ends the run
PipelineSave ==
  /\ prun.pc = "save"
  /\ pipeline_save_items(prun.all_items)
  /\ prun' = [prun EXCEPT !.pc = "done", !.saved = TRUE,
                          !.handed = prun.all_items,
                          !.exit = IF last_op'.raised THEN 1 ELSE 0]
  /\ UNCHANGED <<clock, WRITE_TO_DB, chk, silent,
                 urlVars, fetchVars, logVars, candVars, harnessVars, collected>>

\* a run-level timeout or a signal while the sources are collected: the
\* cancellation is no Exception, no handler of the run catches it
PipelineAbort ==
  /\ prun.pc \in {"rss", "html", "pdf"}
  /\ prun' = [prun EXCEPT !.pc = "aborted", !.exit = 1]
  /\ UNCHANGED <<storeVars, urlVars, fetchVars, logVars, candVars, harnessVars, collected>>

\* run_save.py save_items on the items a finished collection gave
SaveCollected ==
  /\ prun.pc = "done"
  /\ prun.all_items # <<>>
  /\ collected = <<>>
  /\ save_items(prun.all_items)
  /\ collected' = prun.all_items
  /\ UNCHANGED <<clock, WRITE_TO_DB, chk, silent,
                 urlVars, fetchVars, logVars, pipeVars, candVars, harnessVars>>

PipeInit ==
  /\ prun = PipeIdle
  /\ \E o \in HashOrders : hashseed = [e \in Execs |-> o]
  /\ cu_out = <<>>
  /\ collected = <<>>

-----------------------------------------------------------------------------
(* runs_log: RunRecords and the statements the runs issue on them *)

MaxAlertRuns == 1   \* health checks started in one behaviour
ERuns == {1, 2}     \* enrich processes, each runs once

NoteStarted    == "started"
NoteNoProblems == "only-if-issues: no problems -> no email"
NoteError      == "str(e)"
NoteEmptyQueue == "empty-queue"
NoteFatal      == "fatal: type(e).__name__: e"

\* insert: the store gives the id and started_at; finished_at stays null
RunInsert(log, run_type, ok, fail, notes, now) ==
  Append(log, [id |-> Len(log) + 1, run_type |-> run_type,
               started_at |-> now, finished_at |-> NoTs,
               ok_count |-> ok, fail_count |-> fail, notes |-> notes])

\* update ... eq("id", run_id) with ok_count, fail_count, notes, finished_at
RunUpdate(log, run_id, ok, fail, notes, now) ==
  [log EXCEPT ![run_id] = [@ EXCEPT !.ok_count = ok, !.fail_count = fail,
                                    !.notes = notes, !.finished_at = now]]

\* update ... eq("id", run_id) with ok_count, fail_count, finished_at
RunUpdateCounts(log, run_id, ok, fail, now) ==
  [log EXCEPT ![run_id] = [@ EXCEPT !.ok_count = ok, !.fail_count = fail,
                                    !.finished_at = now]]

Bump(counts, id) == [counts EXCEPT ![id] = @ + 1]

-----------------------------------------------------------------------------
(* alerts.py: check_pending_enrich, check_failed_runs, main *)

SINCE_HOURS_DEFAULT == 48

check_pending_enrich(table, country) ==
  Cardinality({i \in 1..Len(table) :
                 /\ table[i].enriched_at = NoTs
                 /\ (country = "None" \/ table[i].country = country)})

\* ids of the RunRecords started in the window with fail_count > 0, latest
\* first
RECURSIVE check_failed_runs(_, _, _)
check_failed_runs(log, since_hours, now) ==
  IF log = <<>> THEN <<>>
  ELSE LET r    == log[Len(log)]
           rest == check_failed_runs(SubSeq(log, 1, Len(log) - 1), since_hours, now)
       IN  IF r.started_at >= now - since_hours * H /\ r.fail_count > 0
           THEN <<r.id>> \o rest
           ELSE rest

\* line 244: the report is suppressed
Suppress_or(only_if_issues, nsilent, nfailed) ==
  only_if_issues /\ (nsilent = 0 \/ nfailed = 0)
Suppress(only_if_issues, nsilent, nfailed) ==
  only_if_issues /\ (nsilent = 0 /\ nfailed = 0)

AlertIdle ==
  [pc |-> "idle", n |-> 0, run_id |-> NoId, only_if_issues |-> FALSE,
   dry_run |-> FALSE, checked |-> FALSE, pending |-> 0, failed |-> <<>>,
   nsilent |-> 0, mail_calls |-> 0, exit |-> Null]

\* lines 183-195: the options, then the RunRecord; a failing insert is
\* outside the try block and ends the process
AlertInsert ==
  /\ arun.pc \in {"idle", "done"}
  /\ arun.n < MaxAlertRuns
  /\ \E only_if_issues \in BOOLEAN, dry_run \in BOOLEAN, inserted \in BOOLEAN :
       IF inserted
       THEN /\ runs_log' = RunInsert(runs_log, "alert", 0, 0, NoteStarted, Now)
            /\ log_updates' = Append(log_updates, 0)
            /\ arun' = [AlertIdle EXCEPT !.pc = "checks", !.n = arun.n + 1,
                          !.run_id = Len(runs_log) + 1,
                          !.only_if_issues = only_if_issues,
                          !.dry_run = dry_run]
       ELSE /\ arun' = [AlertIdle EXCEPT !.pc = "done", !.n = arun.n + 1,
                          !.only_if_issues = only_if_issues,
                          !.dry_run = dry_run, !.exit = 1]
            /\ UNCHANGED <<runs_log, log_updates>>
  /\ UNCHANGED <<regulations, erun, llm_calls, mark_count,
                 storeVars, urlVars, fetchVars, pipeVars, candVars, harnessVars, collected>>

\* lines 198-207: the three checks; a failing query raises into line 259
AlertChecks ==
  /\ arun.pc = "checks"
  /\ \/ /\ arun' = [arun EXCEPT !.pc = "except"]
        /\ UNCHANGED <<chk, silent>>
     \/ \E rows \in QueryResults(ingest_items, "None", MAX_ROWS_DEFAULT),
           strict \in BOOLEAN :
          LET overrides == parse_overrides(NoText)
              res == check_silent_sources(rows, MIN_SILENCE_DEFAULT, overrides,
                                          Now, strict)
          IN  /\ silent' = res.silent
              /\ chk' = [called |-> TRUE, now |-> Now,
                         default |-> MIN_SILENCE_DEFAULT, text |-> NoText,
                         overrides |-> overrides, latest |-> res.latest]
              /\ arun' = [arun EXCEPT
                            !.pc = "decide", !.checked = TRUE,
                            !.pending = check_pending_enrich(ingest_items, "None"),
                            !.failed = check_failed_runs(runs_log, SINCE_HOURS_DEFAULT, Now),
                            !.nsilent = Len(res.silent)]
  /\ UNCHANGED <<runs_log, log_updates, regulations, erun, llm_calls, mark_count,
                 ingest_items, clock, last_op, WRITE_TO_DB,
                 urlVars, fetchVars, pipeVars, candVars, harnessVars, collected>>

\* lines 244-250: nothing to report, no mail, the RunRecord is closed
AlertNoIssues ==
  /\ arun.pc = "decide"
  /\ Suppress(arun.only_if_issues, arun.nsilent, Len(arun.failed))
  /\ runs_log' = RunUpdate(runs_log, arun.run_id, 0, 0, NoteNoProblems, Now)
  /\ log_updates' = Bump(log_updates, arun.run_id)
  /\ arun' = [arun EXCEPT !.pc = "done", !.exit = 0]
  /\ UNCHANGED <<regulations, erun, llm_calls, mark_count,
                 storeVars, urlVars, fetchVars, pipeVars, candVars, harnessVars, collected>>

\* line 252: send_mail; under --dry-run it prints, else the post may fail
AlertSend ==
  /\ arun.pc = "decide"
  /\ ~Suppress(arun.only_if_issues, arun.nsilent, Len(arun.failed))
  /\ \E posted \in BOOLEAN :
       /\ arun.dry_run => posted
       /\ arun' = [arun EXCEPT !.mail_calls = @ + 1,
                               !.pc = IF posted THEN "update" ELSE "except"]
  /\ UNCHANGED <<runs_log, log_updates, regulations, erun, llm_calls, mark_count,
                 storeVars, urlVars, fetchVars, pipeVars, candVars, harnessVars, collected>>

\* lines 255-257
AlertFinish ==
  /\ arun.pc = "update"
  /\ runs_log' = RunUpdate(runs_log, arun.run_id, 1, 0, "None", Now)
  /\ log_updates' = Bump(log_updates, arun.run_id)
  /\ arun' = [arun EXCEPT !.pc = "done", !.exit = 0]
  /\ UNCHANGED <<regulations, erun, llm_calls, mark_count,
                 storeVars, urlVars, fetchVars, pipeVars, candVars, harnessVars, collected>>

\* lines 259-264
AlertExcept ==
  /\ arun.pc = "except"
  /\ runs_log' = RunUpdate(runs_log, arun.run_id, 0, 1, NoteError, Now)
  /\ log_updates' = Bump(log_updates, arun.run_id)
  /\ arun' = [arun EXCEPT !.pc = "done", !.exit = 1]
  /\ UNCHANGED <<regulations, erun, llm_calls, mark_count,
                 storeVars, urlVars, fetchVars, pipeVars, candVars, harnessVars, collected>>

-----------------------------------------------------------------------------
(* enrich.py: safe_url, get_pending_items, upsert_regulation, main *)

LIMIT_DEFAULT == 5

\* the path is percent-quoted
safe_url(u) ==
  IF u = <<>> THEN u
  ELSE [i \in 1..Len(u) |-> IF u[i] = " " THEN "%20" ELSE u[i]]

\* ids of the rows with enriched_at null, ORDER BY created_at ASC, LIMIT
get_pending_items(table, limit) ==
  LET sel == {i \in 1..Len(table) : table[i].enriched_at = NoTs}
      ord == {q \in Perms(sel) :
                \A i, j \in 1..Len(q) :
                  i < j => table[q[i]].created_at <= table[q[j]].created_at}
  IN  {Take(q, limit) : q \in ord}

\* upsert on conflict doc_url: the id of the row written
upsert_regulation(regs, doc) ==
  IF \E i \in 1..Len(regs) : regs[i] = doc
  THEN [regs |-> regs, id |-> CHOOSE i \in 1..Len(regs) : regs[i] = doc]
  ELSE [regs |-> Append(regs, doc), id |-> Len(regs) + 1]

EnrichIdle ==
  [pc |-> "idle", run_id |-> NoId, items |-> <<>>, idx |-> 1,
   ok |-> 0, fail |-> 0, exit |-> Null]

\* lines 271-276: the RunRecord; when the insert fails the run goes on
\* without one.  The processes are numbered in the order they start.
EnrichInsert(r) ==
  /\ erun[r].pc = "idle"
  /\ \A q \in ERuns : q < r => erun[q].pc # "idle"
  /\ \E inserted \in BOOLEAN :
       IF inserted
       THEN /\ runs_log' = RunInsert(runs_log, "enrich", Null, Null, "None", Now)
            /\ log_updates' = Append(log_updates, 0)
            /\ erun' = [erun EXCEPT ![r].pc = "get",
                                    ![r].run_id = Len(runs_log) + 1]
       ELSE /\ erun' = [erun EXCEPT ![r].pc = "get", ![r].run_id = NoId]
            /\ UNCHANGED <<runs_log, log_updates>>
  /\ UNCHANGED <<regulations, arun, llm_calls, mark_count,
                 storeVars, urlVars, fetchVars, pipeVars, candVars, harnessVars, collected>>

\* lines 279-291: the queue; a failing query raises into line 364
EnrichGetPending(r) ==
  /\ erun[r].pc = "get"
  /\ \/ erun' = [erun EXCEPT ![r].pc = "fatal"]
     \/ \E limit \in {1, LIMIT_DEFAULT} :
          \E items \in get_pending_items(ingest_items, limit) :
            erun' = [erun EXCEPT ![r].items = items,
                                 ![r].pc = IF items = <<>> THEN "empty" ELSE "item"]
  /\ UNCHANGED <<runs_log, log_updates, regulations, arun, llm_calls, mark_count,
                 storeVars, urlVars, fetchVars, pipeVars, candVars, harnessVars, collected>>

\* lines 281-289
EnrichEmpty(r) ==
  /\ erun[r].pc = "empty"
  /\ IF erun[r].run_id # NoId
     THEN /\ runs_log' = RunUpdate(runs_log, erun[r].run_id, 0, 0, NoteEmptyQueue, Now)
          /\ log_updates' = Bump(log_updates, erun[r].run_id)
     ELSE UNCHANGED <<runs_log, log_updates>>
  /\ erun' = [erun EXCEPT ![r].pc = "done", ![r].exit = 0]
  /\ UNCHANGED <<regulations, arun, llm_calls, mark_count,
                 storeVars, urlVars, fetchVars, pipeVars, candVars, harnessVars, collected>>

\* line 292: the loop has a next item
NextItemPc_early(items, idx) == "finish"
NextItemPc(items, idx) == IF idx + 1 > Len(items) THEN "finish" ELSE "item"

\* lines 292-354: one item of the queue as the query returned it.  The item
\* is annotated, upserted and marked and counted ok; or a call before the
\* upsert raises, or the upsert is done and mark_enriched raises, and the
\* item is counted as failed
EnrichItem(r) ==
  /\ erun[r].pc = "item"
  /\ LET id  == erun[r].items[erun[r].idx]
         url == safe_url(ingest_items[id].doc_url)
         up  == upsert_regulation(regulations, url)
     IN  \/ /\ llm_calls' = [llm_calls EXCEPT ![id] = @ \cup {r}]
            /\ regulations' = up.regs
            /\ mark_enriched(id, up.id)
            /\ mark_count' = Bump(mark_count, id)
            /\ erun' = [erun EXCEPT ![r].ok = @ + 1, ![r].idx = @ + 1,
                          ![r].pc = NextItemPc(erun[r].items, erun[r].idx)]
         \/ /\ erun' = [erun EXCEPT ![r].fail = @ + 1, ![r].idx = @ + 1,
                          ![r].pc = NextItemPc(erun[r].items, erun[r].idx)]
            /\ UNCHANGED <<ingest_items, regulations, llm_calls, mark_count>>
         \/ /\ llm_calls' = [llm_calls EXCEPT ![id] = @ \cup {r}]
            /\ regulations' = up.regs
            /\ erun' = [erun EXCEPT ![r].fail = @ + 1, ![r].idx = @ + 1,
                          ![r].pc = NextItemPc(erun[r].items, erun[r].idx)]
            /\ UNCHANGED <<ingest_items, mark_count>>
  /\ UNCHANGED <<runs_log, log_updates, arun, clock, last_op, WRITE_TO_DB, chk,
                 silent, urlVars, fetchVars, pipeVars, candVars, harnessVars, collected>>

\* lines 356-362
EnrichFinish(r) ==
  /\ erun[r].pc = "finish"
  /\ IF erun[r].run_id # NoId
     THEN /\ runs_log' = RunUpdateCounts(runs_log, erun[r].run_id,
                                         erun[r].ok, erun[r].fail, Now)
          /\ log_updates' = Bump(log_updates, erun[r].run_id)
     ELSE UNCHANGED <<runs_log, log_updates>>
  /\ erun' = [erun EXCEPT ![r].pc = "done", ![r].exit = 0]
  /\ UNCHANGED <<regulations, arun, llm_calls, mark_count,
                 storeVars, urlVars, fetchVars, pipeVars, candVars, harnessVars, collected>>

\* lines 364-372: the exception is recorded and raised again
EnrichFatal(r) ==
  /\ erun[r].pc = "fatal"
  /\ IF erun[r].run_id # NoId
     THEN /\ runs_log' = RunUpdate(runs_log, erun[r].run_id, 0, 0, NoteFatal, Now)
          /\ log_updates' = Bump(log_updates, erun[r].run_id)
     ELSE UNCHANGED <<runs_log, log_updates>>
  /\ erun' = [erun EXCEPT ![r].pc = "done", ![r].exit = 1]
  /\ UNCHANGED <<regulations, arun, llm_calls, mark_count,
                 storeVars, urlVars, fetchVars, pipeVars, candVars, harnessVars, collected>>

\* the ingest_items tables the runs start from: what the writer stored
RunsTables ==
  LET a == BuildRows(Feed(SrcPsaQatar, "t1", <<LinkA2>>))
      b == BuildRows(Feed(SrcMcit, "t1", <<LinkB>>))
  IN  {<<>>, UpsertAll(UpsertAll(<<>>, a, 0), b, 1)}

LogIdle ==
  /\ runs_log = <<>>
  /\ log_updates = <<>>
  /\ regulations = <<>>
  /\ arun = AlertIdle
  /\ erun = [r \in ERuns |-> EnrichIdle]
  /\ llm_calls = <<>>
  /\ mark_count = <<>>

RunsInit ==
  /\ ingest_items \in RunsTables
  /\ clock = Len(Instants)
  /\ last_op = [op |-> "none", dropped |-> 0, handed |-> <<>>, raised |-> FALSE,
                ret |-> 0, updated |-> {}, to_store |-> FALSE]
  /\ WRITE_TO_DB = FALSE
  /\ chk = [called |-> FALSE, now |-> 0, default |-> 0, text |-> NoText,
            overrides |-> EmptyMap, latest |-> <<>>]
  /\ silent = <<>>
  /\ runs_log = <<>>
  /\ log_updates = <<>>
  /\ regulations = <<>>
  /\ arun = AlertIdle
  /\ erun = [r \in ERuns |-> EnrichIdle]
  /\ llm_calls = [i \in 1..Len(ingest_items) |-> {}]
  /\ mark_count = [i \in 1..Len(ingest_items) |-> 0]

-----------------------------------------------------------------------------
(* Pure-function harness for the collectors' caps: collect_rss and          *)
(* collect_html_async on feeds and pages of up to MaxLinks entries.         *)

MaxLinks == 78    \* entries of a feed, anchors of a page

\* the sizes around the cap, and the largest
LinkCounts == {0, 1, 49, 50, 51, MaxLinks}

\* a feed of n entries with distinct links
BigFeed(n) ==
  [i \in 1..n |->
     Entry(<<"https:", "/", "/", "example.com", "/", ToString(i)>>, "t1")]

\* a page of n anchors: every anchor a link the filter keeps ("plain"), or
\* every third anchor a local one that is skipped ("mixed")
BigPage(n, shape) ==
  [i \in 1..n |->
     IF shape = "mixed" /\ i % 3 = 0
     THEN Anchor(<<"#", "top">>, "Top")
     ELSE Anchor(<<"/", "policy", "/", ToString(i)>>, "Doc")]

PageUrl == <<"https:", "/", "/", "psa.gov.qa", "/">>

CapIdle ==
  [rss  |-> [called |-> FALSE, n |-> 0, items |-> <<>>],
   html |-> [called |-> FALSE, n |-> 0, shape |-> "plain", items |-> <<>>]]

\* collect_rss on the feed of a source
CollectRss ==
  /\ \E n \in LinkCounts, s \in {SrcPsaQatar, SrcMcit} :
       cap' = [cap EXCEPT !.rss = [called |-> TRUE, n |-> n,
                                   items |-> collect_rss(s, BigFeed(n))]]
  /\ UNCHANGED <<idem, storeVars, urlVars, fetchVars, logVars, pipeVars,
                 candVars, collected>>

\* collect_html_async on the listing page of a source
CollectHtml ==
  /\ \E n \in LinkCounts, shape \in {"plain", "mixed"},
        s \in {SrcPsaQatar, SrcNcsa} :
       LET r == [url |-> PageUrl, status_code |-> 200, parses |-> TRUE,
                 anchors |-> BigPage(n, shape)]
       IN  cap' = [cap EXCEPT !.html = [called |-> TRUE, n |-> n, shape |-> shape,
                                        items |-> collect_html_async(s, r)]]
  /\ UNCHANGED <<idem, storeVars, urlVars, fetchVars, logVars, pipeVars,
                 candVars, collected>>

-----------------------------------------------------------------------------
(* Pure-function harness for normalize_url applied to its own result: the  *)
(* key of an item is stored, read back and normalized again by the next    *)
(* save_items.                                                             *)

Leads      == {<<>>, <<" ">>}
WwwRuns    == {<<>>, <<"www.">>, <<"www.", "www.">>}
ShortPaths == {<<>>, <<"/", "a">>}
Tails      == {<<>>, <<"/">>, <<"/", " ">>, <<" ", "/">>, <<"/", " ", "/">>}

IdemShapes == [lead : Leads, scheme : Schemes, www : WwwRuns,
               path : ShortPaths, tail : Tails]

RenderRaw(s) ==
  s.lead \o s.scheme \o s.www \o <<"example.com">> \o s.path \o s.tail

IdemIdle == [pc |-> "idle", u |-> NoUrl, key |-> NoUrl, again |-> NoUrl]

IdemInit ==
  idem \in {[pc |-> "raw", u |-> RenderRaw(s), key |-> NoUrl, again |-> NoUrl] :
              s \in IdemShapes}

\* save_items, line 17: the key of the raw doc_url
NormalizeRaw ==
  /\ idem.pc = "raw"
  /\ idem' = [idem EXCEPT !.pc = "stored", !.key = normalize_url(idem.u)]
  /\ UNCHANGED <<cap, storeVars, urlVars, fetchVars, logVars, pipeVars,
                 candVars, collected>>

\* save_items, line 17, on an item whose doc_url is a stored key
NormalizeStored ==
  /\ idem.pc = "stored"
  /\ idem' = [idem EXCEPT !.pc = "again", !.again = normalize_url(idem.key)]
  /\ UNCHANGED <<cap, storeVars, urlVars, fetchVars, logVars, pipeVars,
                 candVars, collected>>

HarnessIdle ==
  /\ cap = CapIdle
  /\ idem = IdemIdle

-----------------------------------------------------------------------------
\* the pending queue over successive enrich runs: a run starts when the
\* runs before it have exited.  The store holds three pending rows, written
\* by one save_items call (one created_at for all), by two calls, or by
\* three calls
QueueTables ==
  LET one(l) == BuildRows(Feed(SrcPsaQatar, "t1", <<l>>))
      all    == BuildRows(Feed(SrcPsaQatar, "t1", <<LinkA2, LinkB, LinkC>>))
      two    == BuildRows(Feed(SrcPsaQatar, "t1", <<LinkA2, LinkB>>))
  IN  { UpsertAll(<<>>, all, 0),
        UpsertAll(UpsertAll(<<>>, two, 0), one(LinkC), 1),
        UpsertAll(UpsertAll(UpsertAll(<<>>, one(LinkA2), 0), one(LinkB), 1),
                  one(LinkC), 2) }

EnrichStartAfter(r) ==
  /\ \A q \in ERuns : q < r => erun[q].pc = "done"
  /\ EnrichInsert(r)

(* Initial states and specifications *)

StoreIdle ==
  /\ ingest_items = <<>>
  /\ clock = 1
  /\ last_op = [op |-> "none", dropped |-> 0, handed |-> <<>>, raised |-> FALSE,
                ret |-> 0, updated |-> {}, to_store |-> FALSE]
  /\ WRITE_TO_DB = FALSE
  /\ chk = [called |-> FALSE, now |-> 0, default |-> 0, text |-> NoText,
            overrides |-> EmptyMap, latest |-> <<>>]
  /\ silent = <<>>

UrlIdle ==
  /\ url_in = [a |-> CHOOSE s \in UrlShapes : TRUE, b |-> CHOOSE s \in UrlShapes : TRUE]
  /\ url_key = [done |-> TRUE, a |-> NoUrl, b |-> NoUrl]

FetchIdle ==
  /\ f_urls = <<>>
  /\ f_retries = 0
  /\ f_pc = "idle"
  /\ f_attempt = 0
  /\ f_idx = 1
  /\ f_requests = <<>>
  /\ f_sleeps = <<>>
  /\ f_result = NoResp
  /\ f_last_err = "None"
  /\ f_logged = FALSE

PipelineIdle ==
  /\ prun = PipeIdle
  /\ CandIdle
  /\ collected = <<>>

\* the store: writers, enrichment marker
Init == StoreIdle /\ UrlIdle /\ FetchIdle /\ LogIdle /\ PipelineIdle /\ HarnessIdle
Next == SaveItems \/ PipelineSaveItems \/ MarkEnriched
Spec == Init /\ [][Next]_vars

\* the staleness detector over what the writer stored
NextAlerts == SaveItem \/ Tick \/ CheckSilentSources
SpecAlerts == Init /\ [][NextAlerts]_vars

\* normalize_url on pairs of raw URLs
InitUrl ==
  StoreIdle /\ UrlInit /\ FetchIdle /\ LogIdle /\ PipelineIdle /\ HarnessIdle
NextUrl == NormalizePair
SpecUrl == InitUrl /\ [][NextUrl]_vars

\* fetch_first_ok; the event loop resumes the coroutine after every await
InitFetch ==
  StoreIdle /\ UrlIdle /\ FetchInit /\ LogIdle /\ PipelineIdle /\ HarnessIdle
SpecFetch == InitFetch /\ [][FetchNext]_vars
FairSpecFetch == InitFetch /\ [][FetchNext]_vars /\ WF_vars(FetchNext)

\* health checks and enrich processes over one store
InitRuns == RunsInit /\ UrlIdle /\ FetchIdle /\ PipelineIdle /\ HarnessIdle
AlertNext ==
  \/ AlertInsert \/ AlertChecks \/ AlertNoIssues \/ AlertSend
  \/ AlertFinish \/ AlertExcept
EnrichNext(r) ==
  \/ EnrichInsert(r) \/ EnrichGetPending(r) \/ EnrichEmpty(r)
  \/ EnrichItem(r) \/ EnrichFinish(r) \/ EnrichFatal(r)
NextRuns == AlertNext \/ \E r \in ERuns : EnrichNext(r)
SpecRuns == InitRuns /\ [][NextRuns]_vars

\* one collection run, and the store writer on what it collected
InitPipeline ==
  StoreIdle /\ UrlIdle /\ FetchIdle /\ LogIdle /\ PipeInit /\ HarnessIdle
NextPipeline ==
  \/ PipelineStart \/ PipelineNextPhase \/ PipelineRss \/ PipelineHtml
  \/ PipelinePdf \/ PipelineSave \/ PipelineAbort \/ SaveCollected
SpecPipeline == InitPipeline /\ [][NextPipeline]_vars

\* candidate_urls called in two executions
InitCand ==
  /\ StoreIdle /\ UrlIdle /\ FetchIdle /\ LogIdle
  /\ prun = PipeIdle /\ collected = <<>>
  /\ CandInit /\ HarnessIdle
SpecCand == InitCand /\ [][CandidateUrls]_vars

\* the collectors on feeds and pages around the cap
InitCap ==
  /\ StoreIdle /\ UrlIdle /\ FetchIdle /\ LogIdle /\ PipelineIdle
  /\ cap = CapIdle /\ idem = IdemIdle
NextCap == CollectRss \/ CollectHtml
SpecCap == InitCap /\ [][NextCap]_vars

\* normalize_url on a raw URL and on the key it gave
InitIdem ==
  /\ StoreIdle /\ UrlIdle /\ FetchIdle /\ LogIdle /\ PipelineIdle
  /\ cap = CapIdle /\ IdemInit
NextIdem == NormalizeRaw \/ NormalizeStored
SpecIdem == InitIdem /\ [][NextIdem]_vars

\* the staleness detector over groups of several rows
InitLatest ==
  /\ ingest_items \in LatestTables
  /\ clock = Len(Instants)
  /\ last_op = [op |-> "none", dropped |-> 0, handed |-> <<>>, raised |-> FALSE,
                ret |-> 0, updated |-> {}, to_store |-> FALSE]
  /\ WRITE_TO_DB = FALSE
  /\ chk = [called |-> FALSE, now |-> 0, default |-> 0, text |-> NoText,
            overrides |-> EmptyMap, latest |-> <<>>]
  /\ silent = <<>>
  /\ UrlIdle /\ FetchIdle /\ LogIdle /\ PipelineIdle /\ HarnessIdle
SpecLatest == InitLatest /\ [][CheckLatest]_vars

\* successive enrich runs over a store of three pending rows
InitQueue ==
  /\ ingest_items \in QueueTables
  /\ clock = Len(Instants)
  /\ last_op = [op |-> "none", dropped |-> 0, handed |-> <<>>, raised |-> FALSE,
                ret |-> 0, updated |-> {}, to_store |-> FALSE]
  /\ WRITE_TO_DB = FALSE
  /\ chk = [called |-> FALSE, now |-> 0, default |-> 0, text |-> NoText,
            overrides |-> EmptyMap, latest |-> <<>>]
  /\ silent = <<>>
  /\ runs_log = <<>>
  /\ log_updates = <<>>
  /\ regulations = <<>>
  /\ arun = AlertIdle
  /\ erun = [r \in ERuns |-> EnrichIdle]
  /\ llm_calls = [i \in 1..Len(ingest_items) |-> {}]
  /\ mark_count = [i \in 1..Len(ingest_items) |-> 0]
  /\ UrlIdle /\ FetchIdle /\ PipelineIdle /\ HarnessIdle
NextQueue ==
  \E r \in ERuns :
    \/ EnrichStartAfter(r) \/ EnrichGetPending(r) \/ EnrichEmpty(r)
    \/ EnrichItem(r) \/ EnrichFinish(r) \/ EnrichFatal(r)
SpecQueue == InitQueue /\ [][NextQueue]_vars

-----------------------------------------------------------------------------
(* Properties *)

RowsWithKey(table, doc) == {i \in 1..Len(table) : table[i].doc_url = doc}

SaveStep == last_op'.op = "save_items"

\* C1: a writer call stores exactly one row per canonical doc_url, also when
\* the document is already stored (no two rows ever share a canonical
\* doc_url), and a row that was already stored keeps its id, its key and its
\* enrichment columns: only the mutable columns are written.
C1_IdempotentUpsert ==
  [][ SaveStep /\ ~last_op'.raised =>
        /\ \A i, j \in 1..Len(ingest_items') :
              normalize_url(ingest_items'[i].doc_url)
                = normalize_url(ingest_items'[j].doc_url) => i = j
        /\ \A k \in 1..Len(last_op'.handed) :
              Cardinality(RowsWithKey(ingest_items', last_op'.handed[k])) = 1
        /\ Len(ingest_items') =
              Len(ingest_items)
              + Cardinality({last_op'.handed[k] : k \in 1..Len(last_op'.handed)}
                            \ {ingest_items[i].doc_url : i \in 1..Len(ingest_items)})
        /\ \A i \in 1..Len(ingest_items) :
              /\ ingest_items'[i].id = ingest_items[i].id
              /\ ingest_items'[i].doc_url = ingest_items[i].doc_url
              /\ ingest_items'[i].created_at = ingest_items[i].created_at
              /\ ingest_items'[i].enriched_at = ingest_items[i].enriched_at
              /\ ingest_items'[i].regulation_id = ingest_items[i].regulation_id
    ]_vars

\* a stored document was written again, by a feed whose entries have no
\* title, and is still the only row
C1_Witness ==
  /\ last_op.op = "save_items" /\ ~last_op.raised
  /\ last_op.updated = {1}
  /\ ingest_items[1].title = ""
  /\ Len(ingest_items) = 1

\* C2: a write by an ingestion writer never changes enriched_at or
\* regulation_id of a row the enrichment stage has marked.
C2_EnrichmentKept ==
  [][ last_op'.op \in {"save_items", "pipeline_save_items"} =>
        \A i \in 1..Len(ingest_items) :
          ingest_items[i].enriched_at # NoTs =>
            /\ Len(ingest_items') >= i
            /\ ingest_items'[i].doc_url = ingest_items[i].doc_url
            /\ ingest_items'[i].enriched_at = ingest_items[i].enriched_at
            /\ ingest_items'[i].regulation_id = ingest_items[i].regulation_id
    ]_vars

\* an enriched row was written again
C2_Witness ==
  /\ last_op.op = "save_items" /\ ~last_op.raised
  /\ \E i \in last_op.updated :
       ingest_items[i].enriched_at # NoTs /\ ingest_items[i].regulation_id # NoId

\* C3: two raw URLs that differ only in scheme (http, https, none), www.,
\* host letter case or trailing slash have the same canonical key.
C3_SameKey ==
  url_key.done /\ SameDocument(url_in.a, url_in.b) => url_key.a = url_key.b

\* C4: a writer call whose items share a canonical doc_url does not fail and
\* stores exactly one row for each canonical doc_url.
C4_OneSurvives ==
  last_op.op = "save_items" /\ last_op.to_store =>
    /\ ~last_op.raised
    /\ \A k \in 1..Len(last_op.handed) :
          Cardinality(RowsWithKey(ingest_items, last_op.handed[k])) = 1

\* C5: no row handed to the store has a missing or empty doc_url, and a call
\* whose remaining keys are distinct succeeds and returns their number.
C5_NoEmptyKey ==
  /\ \A k \in 1..Len(last_op.handed) :
        last_op.handed[k] # <<>> /\ last_op.handed[k] # NoUrl
  /\ last_op.op = "save_items"
       /\ (\A k, l \in 1..Len(last_op.handed) :
             last_op.handed[k] = last_op.handed[l] => k = l)
       => /\ ~last_op.raised
          /\ last_op.ret = Len(last_op.handed)
          /\ \A k \in 1..Len(last_op.handed) :
                RowsWithKey(ingest_items, last_op.handed[k]) # {}

\* an item without usable doc_url was dropped and the other one stored
C5_Witness ==
  /\ last_op.op = "save_items" /\ ~last_op.raised
  /\ last_op.dropped > 0 /\ Len(last_op.handed) > 0

-----------------------------------------------------------------------------

\* the k-th request of a call is for this candidate: passes in order, list
\* order inside a pass
ExpectedUrl(k) == f_urls[((k - 1) % Len(f_urls)) + 1]

\* C6: requests go candidate by candidate in list order, pass after pass; no
\* request follows a 200; the response returned is the one that answered 200.
C6_FirstOkWins ==
  /\ \A k \in 1..Len(f_requests) :
        /\ f_requests[k].url = ExpectedUrl(k)
        /\ k < Len(f_requests) => ~f_requests[k].ok
  /\ (f_requests # <<>> /\ f_requests[Len(f_requests)].ok) =>
        /\ f_pc = "done"
        /\ f_result = [url |-> f_requests[Len(f_requests)].url, status_code |-> 200]
  /\ (f_pc = "done" /\ f_result # NoResp) =>
        f_requests # <<>> /\ f_requests[Len(f_requests)].ok

\* the second candidate answered 200 in the second pass
C6_Witness ==
  /\ f_pc = "done" /\ f_result # NoResp
  /\ Len(f_urls) = 2 /\ f_urls[1] # f_urls[2]
  /\ Len(f_requests) = 4
  /\ f_result.url = f_urls[2]

C7_Bounded ==
  /\ Len(f_requests) <= (f_retries + 1) * Len(f_urls)
  /\ Len(f_sleeps) <= f_retries
  /\ \A i \in 1..Len(f_sleeps) : f_sleeps[i] = BACKOFF_TENTHS * i
  /\ f_pc = "done" /\ (\A k \in 1..Len(f_requests) : ~f_requests[k].ok) =>
        /\ f_result = NoResp
        /\ Len(f_requests) = (f_retries + 1) * Len(f_urls)
        /\ Len(f_sleeps) = f_retries

\* C7: the call ends; it issues at most (retries + 1) * n requests, sleeps
\* at most retries times, the i-th sleep lasting i * 1.2 s, never after the
\* last pass; when every request failed it returns no response.
C7_Terminates == []C7_Bounded /\ <>(f_pc = "done")

\* every request of every pass failed
C7_Witness ==
  /\ f_pc = "done" /\ f_result = NoResp
  /\ Len(f_urls) = 2 /\ f_retries = 2
  /\ Len(f_requests) = 6 /\ f_sleeps = <<12, 24>>
  /\ f_logged

-----------------------------------------------------------------------------

AlertFor(key) ==
  \E k \in 1..Len(silent) :
    <<silent[k].country, silent[k].authority, silent[k].source_url>> = key

\* the threshold the option text asks for, in hours
ExpectedThreshold(text, authority, default) ==
  IF text \in {TextPsa48, TextSpaced} /\ authority = "PSA" THEN 48
  ELSE IF text = TextMixed /\ authority = "MCIT" THEN 96
  ELSE default

\* C8: a group is reported exactly when the time since its last item is
\* strictly greater than its threshold: at threshold + 1 s it is reported,
\* at the threshold and at threshold - 1 s it is not.
C8_StrictThreshold ==
  chk.called =>
    /\ \A e \in 1..Len(chk.latest) :
          AlertFor(chk.latest[e].key) <=>
            chk.now - chk.latest[e].last_dt
              > H * ExpectedThreshold(chk.text, chk.latest[e].key[2], chk.default)
    /\ \A k \in 1..Len(silent) :
          /\ chk.now - silent[k].last_item_at > H * silent[k].threshold_h
          /\ \E e \in 1..Len(chk.latest) :
                /\ chk.latest[e].key
                     = <<silent[k].country, silent[k].authority, silent[k].source_url>>
                /\ chk.latest[e].last_dt = silent[k].last_item_at

\* default 72 h: the group last active 72 h + 1 s ago is reported, the one
\* last active 72 h - 1 s ago is not
C8_Witness ==
  /\ chk.called /\ chk.default = 72 /\ chk.text = NoText
  /\ \E e, g \in 1..Len(chk.latest) :
       /\ chk.now - chk.latest[e].last_dt = 72 * H + 1
       /\ AlertFor(chk.latest[e].key)
       /\ chk.now - chk.latest[g].last_dt = 72 * H - 1
       /\ ~AlertFor(chk.latest[g].key)

\* C9: the threshold of a group is the override of its authority when the
\* option text gives one, else the default, and threshold_h of an alert is
\* the threshold that was applied.
C9_OverridePrecedence ==
  chk.called =>
    /\ \A k \in 1..Len(silent) :
          silent[k].threshold_h
            = ExpectedThreshold(chk.text, silent[k].authority, chk.default)
    /\ \A e \in 1..Len(chk.latest) :
          (chk.text = TextPsa48 /\ chk.default = 72
             /\ chk.now - chk.latest[e].last_dt = 50 * H)
          => (AlertFor(chk.latest[e].key) <=> chk.latest[e].key[2] = "PSA")

\* "PSA=48", default 72: of two groups last active 50 h ago the PSA one is
\* reported with threshold 48 and the MCIT one is not
C9_Witness ==
  /\ chk.called /\ chk.text = TextPsa48 /\ chk.default = 72
  /\ \E e, g \in 1..Len(chk.latest) :
       /\ chk.now - chk.latest[e].last_dt = 50 * H
       /\ chk.latest[e].key[2] = "PSA" /\ AlertFor(chk.latest[e].key)
       /\ chk.now - chk.latest[g].last_dt = 50 * H
       /\ chk.latest[g].key[2] = "MCIT" /\ ~AlertFor(chk.latest[g].key)
  /\ \E k \in 1..Len(silent) : silent[k].threshold_h = 48

\* C10: every alert a check returns is for a group that has a stored row.
C10_OnlySeenSources ==
  [][ chk' # chk \/ silent' # silent =>
        \A k \in 1..Len(silent') :
          \E i \in 1..Len(ingest_items') :
            KeyOf(ingest_items'[i])
              = <<silent'[k].country, silent'[k].authority, silent'[k].source_url>>
    ]_vars

\* a check reported a group while a source without any stored row was not
C10_Witness ==
  /\ chk.called /\ chk.now = 72 * H + 1 /\ Len(silent) >= 1
  /\ \E src \in Sources :
       LET key == <<normalize_country(src.country), src.authority,
                    normalize_url(src.source_url)>>
       IN  /\ \A i \in 1..Len(ingest_items) : KeyOf(ingest_items[i]) # key
           /\ ~AlertFor(key)

-----------------------------------------------------------------------------

AlertRow == runs_log[arun.run_id]

-----------------------------------------------------------------------------

Phases == <<"rss", "html", "pdf">>

AttemptsOf(phase, priority) ==
  {k \in 1..Len(prun.attempted) :
     prun.attempted[k].phase = phase /\ prun.attempted[k].priority = priority}

RECURSIVE Flatten(_)
Flatten(attempts) ==
  IF attempts = <<>> THEN <<>>
  ELSE Head(attempts).items \o Flatten(Tail(attempts))

\* C12: in a run that reaches the writer, every source of every phase of the
\* run was collected exactly once, whatever happened to the other sources,
\* and the writer is called with the items of all the collector calls that
\* returned, in the order of the calls.
C12_Isolation ==
  prun.saved =>
    /\ \A p \in 1..Len(Phases), i \in 1..Len(prun.sources) :
          Cardinality(AttemptsOf(Phases[p], prun.sources[i].priority))
            = IF PhaseOn(prun.only, Phases[p]) /\ Eligible(prun.sources[i], Phases[p])
              THEN 1 ELSE 0
    /\ prun.handed = Flatten(prun.attempted)

\* of the three HTML sources the second raised, the first and the third
\* gave items, and the writer was called with the items of every call that
\* returned
C12_Witness ==
  /\ prun.saved /\ prun.only = "None"
  /\ Len(prun.attempted) = 5
  /\ \A k \in 2..4 : prun.attempted[k].phase = "html"
  /\ prun.attempted[2].ok /\ prun.attempted[2].items # <<>>
  /\ ~prun.attempted[3].ok
  /\ prun.attempted[4].ok /\ prun.attempted[4].items # <<>>
  /\ prun.handed = prun.attempted[1].items \o prun.attempted[2].items
                     \o prun.attempted[4].items \o prun.attempted[5].items

-----------------------------------------------------------------------------

\* C13: with the persistence switch off, the pipeline's writer, called with
\* the items the collectors gave, does not raise, hands nothing to the
\* store, previews at most the first 5 items and leaves the store as it was.
C13_DryRunQuiet ==
  prun.saved /\ ~WRITE_TO_DB =>
    /\ ~last_op.raised
    /\ ~last_op.to_store
    /\ last_op.ret <= PREVIEW
    /\ ingest_items = <<>>

\* C14: every ingest item is annotated at most once, and at most one enrich
\* process performs its LLM enrichment.
C14_EnrichedOnce ==
  \A i \in 1..Len(ingest_items) :
    /\ mark_count[i] <= 1
    /\ Cardinality(llm_calls[i]) <= 1

InFlight(pc) == pc \notin {"idle", "done"}

\* the RunRecord of a run: open while the run is in flight, closed by one
\* update when the run has ended
RecordOpen(run_id) ==
  /\ run_id \in 1..Len(runs_log)
  /\ runs_log[run_id].finished_at = NoTs
  /\ log_updates[run_id] = 0
RecordClosed(run_id) ==
  /\ run_id \in 1..Len(runs_log)
  /\ runs_log[run_id].finished_at # NoTs
  /\ log_updates[run_id] = 1

\* C15: a health check or enrich run that is past its start has a RunRecord,
\* inserted before its checks or items; the RunRecord has no finished_at
\* and no update while the run is in flight, and exactly one update and a
\* finished_at once the run has ended, whatever the exit path.
C15_RunRecordLifecycle ==
  /\ InFlight(arun.pc) => RecordOpen(arun.run_id)
  /\ arun.pc = "done" /\ arun.run_id # NoId => RecordClosed(arun.run_id)
  /\ \A r \in ERuns :
        /\ InFlight(erun[r].pc) => RecordOpen(erun[r].run_id)
        /\ erun[r].pc = "done" => RecordClosed(erun[r].run_id)

\* C16: a run that ended on an exception at its outer boundary exits
\* non-zero and its RunRecord has fail_count > 0 and a note, so that the
\* failed-run query of a health check run right after returns it.
C16_FatalCounted ==
  /\ arun.pc = "done" /\ arun.exit = 1 /\ arun.run_id # NoId =>
        /\ AlertRow.fail_count > 0 /\ AlertRow.notes = NoteError
  /\ \A r \in ERuns :
        erun[r].pc = "done" /\ erun[r].exit = 1 /\ erun[r].run_id # NoId =>
          /\ runs_log[erun[r].run_id].notes = NoteFatal
          /\ runs_log[erun[r].run_id].fail_count > 0
          /\ \E k \in 1..Len(check_failed_runs(runs_log, SINCE_HOURS_DEFAULT, Now)) :
                check_failed_runs(runs_log, SINCE_HOURS_DEFAULT, Now)[k] = erun[r].run_id

\* C17: every run that has ended, of the collection pipeline, of enrich or
\* of the health check, has a RunRecord with its ok and fail counts.
C17_EveryRunLogged ==
  /\ prun.pc \in {"done", "aborted"} =>
        \E i \in 1..Len(runs_log) :
          /\ runs_log[i].run_type \notin {"alert", "enrich"}
          /\ runs_log[i].ok_count # Null /\ runs_log[i].fail_count # Null
  /\ arun.pc = "done" /\ arun.checked =>
        /\ arun.run_id \in 1..Len(runs_log)
        /\ AlertRow.ok_count # Null /\ AlertRow.fail_count # Null
  /\ \A r \in ERuns :
        erun[r].pc = "done" =>
          /\ erun[r].run_id \in 1..Len(runs_log)
          /\ runs_log[erun[r].run_id].ok_count # Null
          /\ runs_log[erun[r].run_id].fail_count # Null

Stored(doc) ==
  \E i \in 1..Len(ingest_items) :
    ingest_items[i].doc_url \in {doc, normalize_url(doc)}

\* C18: when a run is aborted while its sources are collected, the items of
\* the collector calls that had returned are in the store.
C18_PartialPersisted ==
  prun.pc = "aborted" =>
    \A k \in 1..Len(prun.all_items) :
      IsUsable(DocKey(prun.all_items[k])) => Stored(OrEmpty(prun.all_items[k].doc_url))

\* C19: two calls of candidate_urls with the same input, in the same or in
\* different executions, return the same candidates in the same order.
C19_Deterministic ==
  \A i, j \in 1..Len(cu_out) :
    cu_out[i].base_url = cu_out[j].base_url => cu_out[i].urls = cu_out[j].urls

\* the ingest_source_type values that name a collector
TypesOf(collector) ==
  IF collector = "rss" THEN {"rss"}
  ELSE IF collector = "html" THEN {"html", "html:pdf-link"}
  ELSE {"pdf"}

\* C20: every item a collector returned has an ingest_source_type naming
\* that collector, and the row stored for the item has a type naming that
\* collector too.
C20_TypeNamesOrigin ==
  \A k \in 1..Len(prun.all_items) :
    /\ prun.all_items[k].ingest_source_type \in TypesOf(prun.origin[k])
    /\ collected # <<>> /\ ~last_op.raised /\ IsUsable(DocKey(prun.all_items[k])) =>
          \A i \in RowsWithKey(ingest_items, DocKey(prun.all_items[k])) :
            ingest_items[i].ingest_source_type \in TypesOf(prun.origin[k])

\* the i-th anchor of a page that the HTML collector keeps
KeptAnchor(i, shape) == IF shape = "mixed" THEN i + (i - 1) \div 2 ELSE i

\* the anchors of a page that the HTML collector keeps
KeptCount(n, shape) == IF shape = "mixed" THEN n - n \div 3 ELSE n

\* C21: a collector returns at most 50 items for a source: the RSS collector
\* the items of the first 50 entries of the feed, the HTML collector the
\* items of the first 50 links it keeps, whatever the size of feed or page.
C21_AtMostFifty ==
  /\ cap.rss.called =>
        /\ Len(cap.rss.items) = Min(50, cap.rss.n)
        /\ \A i \in 1..Len(cap.rss.items) :
              cap.rss.items[i].doc_url = BigFeed(cap.rss.n)[i].link
  /\ cap.html.called =>
        /\ Len(cap.html.items) = Min(50, KeptCount(cap.html.n, cap.html.shape))
        /\ \A i \in 1..Len(cap.html.items) :
              cap.html.items[i].doc_url
                = urljoin(PageUrl, BigPage(cap.html.n, cap.html.shape)
                                     [KeptAnchor(i, cap.html.shape)].href)

\* a feed of more than 50 entries and a page with skipped anchors and more
\* than 50 kept links each gave exactly 50 items
C21_Witness ==
  /\ cap.rss.called /\ cap.rss.n > 50 /\ Len(cap.rss.items) = 50
  /\ cap.html.called /\ cap.html.shape = "mixed"
  /\ KeptCount(cap.html.n, "mixed") > 50 /\ Len(cap.html.items) = 50

\* C23: the key of a key is the key: normalize_url applied to its own
\* result returns it unchanged.
C23_Idempotent ==
  idem.pc = "again" => idem.again = idem.key

\* max(created_at) over the rows of a group
GroupMax(table, key) ==
  LET ts == {table[i].created_at : i \in {j \in 1..Len(table) : KeyOf(table[j]) = key}}
  IN  CHOOSE t \in ts : \A u \in ts : u <= t

\* C22: the last_item_at a check computes for a group is the maximum
\* created_at over the stored rows of that group, also when groups of
\* several countries share authority and source_url and when the store
\* holds more rows than max_rows.
C22_LatestIsMax ==
  [][ chk' # chk =>
        \A e \in 1..Len(chk'.latest) :
          chk'.latest[e].last_dt = GroupMax(ingest_items', chk'.latest[e].key)
    ]_vars

\* C24: in an enrich run every selected item adds one to exactly one of ok
\* and fail, so that ok + fail is the number of items selected when the
\* loop has ended; the run writes enriched_at of an item only when the
\* upsert of its regulation is done and the item is counted ok; the run
\* writes nothing to an item it counts as failed.
C24_CountedOnce ==
  [][ \A r \in ERuns :
        /\ erun[r].pc = "item" /\ erun'[r] # erun[r] =>
              LET id == erun[r].items[erun[r].idx]
              IN  /\ \/ erun'[r].ok = erun[r].ok + 1 /\ erun'[r].fail = erun[r].fail
                     \/ erun'[r].ok = erun[r].ok /\ erun'[r].fail = erun[r].fail + 1
                  /\ \A i \in 1..Len(ingest_items) :
                        i # id => ingest_items'[i] = ingest_items[i]
                  /\ mark_count'[id] # mark_count[id] =>
                        /\ erun'[r].ok = erun[r].ok + 1
                        /\ \E k \in 1..Len(regulations') :
                              regulations'[k] = safe_url(ingest_items[id].doc_url)
                        /\ ingest_items'[id].regulation_id
                             = upsert_regulation(regulations,
                                                 safe_url(ingest_items[id].doc_url)).id
                  /\ erun'[r].fail = erun[r].fail + 1 =>
                        /\ mark_count' = mark_count
                        /\ ingest_items' = ingest_items
        /\ erun'[r].pc = "finish" =>
              erun'[r].ok + erun'[r].fail = Len(erun'[r].items)
    ]_vars

\* a run alone on the store selected two items, counted one ok and one
\* failed and ended; the failed item is pending, the other is enriched and
\* its regulation is stored
C24_Witness ==
  /\ erun[1].pc = "done" /\ erun[2].pc = "idle"
  /\ Len(erun[1].items) = 2 /\ erun[1].ok = 1 /\ erun[1].fail = 1
  /\ \E i, j \in 1..2 :
        /\ ingest_items[erun[1].items[i]].enriched_at # NoTs
        /\ ingest_items[erun[1].items[i]].regulation_id # NoId
        /\ ingest_items[erun[1].items[j]].enriched_at = NoTs
  /\ regulations # <<>>

\* the run has the answer of its pending query
HasSelected(r) ==
  \/ erun[r].pc \in {"item", "finish", "empty"}
  \/ erun[r].pc = "done" /\ erun[r].exit = 0
Selected(r) == {erun[r].items[k] : k \in 1..Len(erun[r].items)}
LatestRun(r) == \A q \in ERuns : q > r => erun[q].pc = "idle"
\* the rows that were pending when the latest run asked
PendingAt(r) ==
  {i \in 1..Len(ingest_items) : ingest_items[i].enriched_at = NoTs} \cup Selected(r)
\* the items of run q that run q left pending
FailedIn(q) ==
  {x \in Selected(q) :
     \/ ingest_items[x].enriched_at = NoTs
     \/ \E r \in ERuns : r > q /\ x \in Selected(r)}

\* C25: over successive enrich runs the items of a run are in created_at
\* order, none of them is newer than a pending item the run left out, and
\* there are as many as the limit allows; an item is selected only when
\* fewer older pending items than the run selects exist; and the items a run
\* left pending are selected again by a later run that selects at least as
\* many items as were left.
C25_OldestFirstRetry ==
  /\ \A r \in ERuns :
       HasSelected(r) =>
         /\ \A i, j \in 1..Len(erun[r].items) :
               i < j => ingest_items[erun[r].items[i]].created_at
                          <= ingest_items[erun[r].items[j]].created_at
         /\ LatestRun(r) =>
              /\ \A x \in Selected(r), y \in PendingAt(r) \ Selected(r) :
                    ingest_items[x].created_at <= ingest_items[y].created_at
              /\ \E limit \in {1, LIMIT_DEFAULT} :
                    Len(erun[r].items) = Min(limit, Cardinality(PendingAt(r)))
              /\ \A x \in Selected(r) :
                    Cardinality({y \in PendingAt(r) :
                                   ingest_items[y].created_at
                                     < ingest_items[x].created_at})
                      < Len(erun[r].items)
  /\ \A q, r \in ERuns :
       /\ q < r /\ HasSelected(q) /\ HasSelected(r)
       /\ Cardinality(Selected(r)) >= Cardinality(FailedIn(q))
       => FailedIn(q) \subseteq Selected(r)

====
